---- MODULE Spec2Model ----
(***************************************************************************)
(* Model of the dispatch-and-processing pipeline of momentum:             *)
(*   StrategyService  (app/application/services/strategy_service.py)      *)
(*   SignalProcessor  (app/services/signal_processor.py)                  *)
(*   SQLitePersistence (app/infrastructure/persistence/sqlite.py)         *)
(* Time is counted in ticks; a second is TicksPerSecond ticks.            *)
(***************************************************************************)
EXTENDS Integers, Sequences, FiniteSets, TLC

\* ---------------------------------------------------------------- bounds
MaxRegistryStrategies == 6
MaxDispatchStrategies == 2
MaxTargets == 3
MaxTime == 2
MaxLockWait == 1
TicksPerSecond == 2
MaxQueue == 3
MaxPoolTime == 4
MaxJobs == 2
MaxStarts == 2
MaxDropped == 1
MaxFaults == 1
MaxOtherRowid == 2
MaxCalls == 2
MaxJobStrategy == 2
MaxMessageId == 1
MaxRetentionHours == 1
MaxLifecycleStrategies == 2
SecondsPerHour == 1

\* ------------------------------------------------------ program constants
MAX_ACTIVE_STRATEGIES == 5
\* SignalProcessor(max_workers=2)
max_workers == 2

None == "None"
\* a NULL timestamp column / a missing datetime
NoTime == [t |-> -1, aware |-> FALSE]

\* canonical channel ids the gateway can resolve, in Python string order
ChannelIds == <<"100", "200">>
RegistryChannels == {"100"}
DispatchChannels == {"100", "200"}
MessageChannels == {"100"}
\* the ids the calls of the model address: the MaxTargets highest ones
TargetIds(maxStrategies) ==
    {i \in 1..maxStrategies : i > maxStrategies - MaxTargets}

\* create_strategy inputs: a valid call and the two rejected by validation
CreateInputs(channels) ==
    {[name |-> "A", identifier |-> c] : c \in channels}
        \cup {[name |-> " ", identifier |-> CHOOSE c \in channels : TRUE],
              [name |-> "A", identifier |-> " "]}
Texts == {None, " ", "buy"}

VARIABLES
    now,              \* wall clock (datetime.utcnow / datetime.now), in ticks
    db_strategies,    \* table strategies: id -> row
    db_strategy_seq,  \* AUTOINCREMENT counter of table strategies
    strategies,       \* StrategyService._strategies, in dict order
    channel_index,    \* StrategyService._channel_index
    initialized_at,   \* StrategyService._initialized_at
    gateway,          \* last instruction the Channel Gateway received
    gateway_up,       \* the Channel Gateway accepts the synchronizer's call
    lastOp,           \* outcome of the last registry call
    lastDispatch,     \* outcome of the last handle_incoming_message call
    queue,            \* SignalProcessor._queue
    shutdown,         \* SignalProcessor._shutdown
    workers,          \* SignalProcessor._workers: the tasks start() spawned
    wstate,           \* position of each worker task
    wjob,             \* the job a worker is processing
    wprocessed_at,    \* processed_at of that job, taken before the parse
    stopper,          \* position of the stop() call
    retention_hours,  \* SignalProcessor(retention_hours=...)
    parser_configured,\* SignalParser._client is not None
    signals,          \* table strategy_signals
    signal_seq,       \* AUTOINCREMENT counter of table strategy_signals
    wresult,          \* status, error and payload the parse of that job ended with
    accepted,         \* the jobs enqueue has put on the queue, in order
    upserts,          \* number of record_signal calls made
    purged_total,     \* number of rows the purges have deleted
    stop_called,      \* stop() has begun on a running pool
    stop_since_start, \* stop() calls made since the last start() call
    dropped,          \* number of jobs enqueue has discarded
    faults,           \* the store and sink calls that raised, in order
    last_insert_rowid,\* sqlite3_last_insert_rowid() of the store's connection
    wsignal,          \* the signal record_signal returned to that worker
    calls,            \* the registry calls suspended at an await, by task
    lock,             \* StrategyService._lock: the task holding it, 0 when free
    starts            \* number of times start() has spawned the workers

registryVars == <<db_strategies, db_strategy_seq, strategies, channel_index,
                  initialized_at, gateway, gateway_up, lastOp>>
poolVars == <<queue, shutdown, workers, wstate, wjob, wprocessed_at, wresult,
              stopper, retention_hours, parser_configured, signals, signal_seq,
              accepted, upserts, purged_total, stop_called, stop_since_start,
              dropped, starts, faults, last_insert_rowid, wsignal>>
vars == <<now, registryVars, lastDispatch, poolVars, calls, lock>>

\* ------------------------------------------------------------ time values
TicksPerHour == SecondsPerHour * TicksPerSecond

\* datetime.replace(microsecond=0): drop the sub-second part
Truncate(t) == t - (t % TicksPerSecond)

\* datetime.utcnow(): a naive datetime
utcnow == [t |-> now, aware |-> FALSE]

\* SQLitePersistence._now(): text of an aware UTC datetime, whole seconds
db_now(t) == [t |-> Truncate(t), aware |-> TRUE]

\* datetime.utcnow().replace(microsecond=0).isoformat(): text without offset
naive_iso(t) == [t |-> Truncate(t), aware |-> FALSE]

\* the parse without the tzinfo default: the text's own offset, if any, is kept
parse_datetime_as_written(text) == [t |-> text.t, aware |-> text.aware]

\* SQLitePersistence._parse_datetime: always an aware UTC datetime
parse_datetime(text) == [t |-> text.t, aware |-> TRUE]

\* datetime ordering raises TypeError between a naive and an aware value
Comparable(a, b) == a.aware = b.aware

\* ------------------------------------------------------------- strategies
row_to_strategy(id, row) ==
    [id |-> id,
     name |-> row.name,
     channel_id |-> row.channel_id,
     channel_linked_at |-> IF row.channel_linked_at = NoTime THEN NoTime
                           ELSE parse_datetime(row.channel_linked_at),
     is_active |-> row.is_active,
     is_paused |-> row.is_paused,
     created_at |-> parse_datetime(row.created_at)]

CacheIds(cache) == {cache[i].id : i \in 1..Len(cache)}

CacheGet(cache, id) == cache[CHOOSE i \in 1..Len(cache) : cache[i].id = id]

RECURSIVE IdsForChannel(_, _)
IdsForChannel(cache, c) ==
    IF cache = <<>> THEN <<>>
    ELSE IF Head(cache).channel_id = c
         THEN <<Head(cache).id>> \o IdsForChannel(Tail(cache), c)
         ELSE IdsForChannel(Tail(cache), c)

\* an index that would be extended with the ids it lacks and never pruned
channel_index_add_only(cache) ==
    [c \in (DOMAIN channel_index \cup {cache[i].channel_id : i \in 1..Len(cache)}) \ {None}
        |-> LET old == IF c \in DOMAIN channel_index THEN channel_index[c] ELSE <<>>
            IN old \o SelectSeq(IdsForChannel(cache, c),
                                LAMBDA x : \A k \in 1..Len(old) : old[k] # x)]

rebuild_channel_index_locked(cache) ==
    [c \in {cache[i].channel_id : i \in 1..Len(cache)} \ {None}
        |-> IdsForChannel(cache, c)]

\* a write to the map that would leave the entry of a known key as it is
store_strategy_locked_keeps_entry(cache, s) ==
    IF s.id \in CacheIds(cache) THEN cache ELSE Append(cache, s)

\* self._strategies[strategy.id] = strategy keeps the position of a known key
store_strategy_locked(cache, s) ==
    IF s.id \in CacheIds(cache)
    THEN [i \in 1..Len(cache) |-> IF cache[i].id = s.id THEN s ELSE cache[i]]
    ELSE Append(cache, s)

CachePop(cache, id) == SelectSeq(cache, LAMBDA s : s.id # id)

\* the count with the comparison against the cap off by one
count_active_locked_one_short(cache) ==
    Cardinality({i \in 1..Len(cache) : cache[i].is_active /\ ~cache[i].is_paused}) - 1

count_active_locked(cache) ==
    Cardinality({i \in 1..Len(cache) : cache[i].is_active /\ ~cache[i].is_paused})

\* _require_strategy_locked: cache first, then the store (back-filling)
RequireFound(id) == id \in CacheIds(strategies) \/ id \in DOMAIN db_strategies

RequireCache(id) ==
    IF id \in CacheIds(strategies) THEN strategies
    ELSE IF id \in DOMAIN db_strategies
         THEN store_strategy_locked(strategies, row_to_strategy(id, db_strategies[id]))
         ELSE strategies

\* rows of get_strategies: ORDER BY created_at ASC, ties in rowid order
RowBefore(i, j) ==
    \/ db_strategies[i].created_at.t < db_strategies[j].created_at.t
    \/ /\ db_strategies[i].created_at.t = db_strategies[j].created_at.t
       /\ i < j

RECURSIVE SortedRows(_)
SortedRows(ids) ==
    IF ids = {} THEN <<>>
    ELSE LET first == CHOOSE i \in ids : \A j \in ids \ {i} : RowBefore(i, j)
         IN <<row_to_strategy(first, db_strategies[first])>> \o SortedRows(ids \ {first})

get_strategies == SortedRows(DOMAIN db_strategies)

\* ------------------------------------------------------ channel synchronizer
\* a synchroniser that would leave paused strategies out of the snapshot
ActiveChannels_unpaused(cache) ==
    {cache[i].channel_id : i \in {k \in 1..Len(cache) :
        cache[k].is_active /\ ~cache[k].is_paused /\ cache[k].channel_id # None}}

ActiveChannels(cache) ==
    {cache[i].channel_id : i \in {k \in 1..Len(cache) :
        cache[k].is_active /\ cache[k].channel_id # None}}

SortedChannels(cs) == SelectSeq(ChannelIds, LAMBDA c : c \in cs)

synchronise_channels(cache) ==
    IF ActiveChannels(cache) # {}
    THEN [op |-> "set_channels", ids |-> SortedChannels(ActiveChannels(cache)),
          reset_history |-> FALSE, ingest_history |-> FALSE]
    ELSE [op |-> "stop_capture"]

\* the gateway resolves an identifier to a canonical channel id, or fails
resolve_channel(identifier) ==
    IF \E i \in 1..Len(ChannelIds) : ChannelIds[i] = identifier
    THEN identifier ELSE None

\* str.strip() on the small alphabet of the model
Strip(s) == IF s = " " THEN "" ELSE s

\* what a registry call was and how it ended; synced: it ran the synchronizer
Outcome(name, id, activate, result, synced) ==
    [name |-> name, id |-> id, activate |-> activate, result |-> result,
     synced |-> synced]

\* the calls of the registry that are suspended at an await
Tasks == 1..MaxCalls
Idle == [stage |-> "idle"]

\* ------------------------------------------------------------ worker pool
Workers == 1..max_workers
Sentinel == [sentinel |-> TRUE]
NoJob == [nojob |-> TRUE]
NoResult == [status |-> None, error |-> None, payload |-> None]
NoSignal == [nosignal |-> TRUE]
IsJob(x) == x # Sentinel /\ x # NoJob

\* SignalParser.parse raises before its first await: empty text, no client
RaisesAtOnce(job) ==
    job.raw_message = None \/ Strip(job.raw_message) = "" \/ ~parser_configured

\* the parser call as a blocking call: the event loop is held while it runs
InSyncCode_blocking_parse(w) ==
    \/ wstate[w] = "recorded"
    \/ wstate[w] = "parsing"

\* a worker inside code that runs without an await: from record_signal to the
\* purge, and the whole of _process_job when the parser raises at once
InSyncCode(w) ==
    \/ wstate[w] = "recorded"
    \/ wstate[w] = "parsing" /\ RaisesAtOnce(wjob[w])

\* no other coroutine runs, and no time passes, while a worker is in such code
NoSyncStep == \A w \in Workers : ~InSyncCode(w)

\* ------------------------------------------------------------------- Init
Init ==
    /\ now = 0
    /\ db_strategies = <<>>
    /\ db_strategy_seq = 0
    /\ strategies = <<>>
    /\ channel_index = <<>>
    /\ initialized_at = [t |-> 0, aware |-> FALSE]
    /\ gateway = [op |-> "none"]
    /\ gateway_up = TRUE
    /\ lastOp = Outcome("init", 0, FALSE, "ok", FALSE)
    /\ lastDispatch = [message |-> [channel_id |-> None, telegram_id |-> 0,
                                    message |-> None, created_at |-> NoTime],
                       raised |-> FALSE, enqueued |-> <<>>]
    /\ queue = <<>>
    /\ shutdown = FALSE
    /\ workers = {}
    /\ wstate = [w \in Workers |-> "absent"]
    /\ wjob = [w \in Workers |-> NoJob]
    /\ wprocessed_at = [w \in Workers |-> NoTime]
    /\ stopper = "idle"
    /\ retention_hours \in 1..MaxRetentionHours
    /\ parser_configured \in BOOLEAN
    /\ signals = {}
    /\ signal_seq = 0
    /\ wresult = [w \in Workers |-> NoResult]
    /\ accepted = <<>>
    /\ upserts = 0
    /\ purged_total = 0
    /\ stop_called = FALSE
    /\ stop_since_start = "none"
    /\ dropped = 0
    /\ faults = <<>>
    /\ last_insert_rowid = 0
    /\ wsignal = [w \in Workers |-> NoSignal]
    /\ calls = [t \in Tasks |-> Idle]
    /\ lock = 0
    /\ starts = 0

\* -------------------------------------------------------------- registry
\* initialize: the lock block and, after it, the synchronisation
initialize_call ==
    /\ strategies' = get_strategies
    /\ channel_index' = rebuild_channel_index_locked(get_strategies)
    /\ initialized_at' = utcnow
    /\ gateway' = IF gateway_up THEN synchronise_channels(get_strategies) ELSE gateway
    /\ lastOp' = Outcome("initialize", 0, FALSE,
                         IF gateway_up THEN "ok" ELSE "GatewayError", TRUE)
    /\ UNCHANGED <<db_strategies, db_strategy_seq, gateway_up>>

initialize ==
    /\ UNCHANGED <<now, lastDispatch, poolVars, calls, lock>>
    /\ initialize_call

Fail(name, id, activate, result) ==
    /\ lastOp' = Outcome(name, id, activate, result, FALSE)
    /\ UNCHANGED <<db_strategies, db_strategy_seq, strategies, channel_index,
                   initialized_at, gateway, gateway_up>>

\* a raise that would come only after the store was written
Raise_after_write(name, id, cache, result) ==
    /\ db_strategies' = [db_strategies EXCEPT ![id].is_paused = FALSE]
    /\ strategies' = cache
    /\ channel_index' = rebuild_channel_index_locked(cache)
    /\ lastOp' = Outcome(name, id, FALSE, result, FALSE)
    /\ UNCHANGED <<db_strategy_seq, initialized_at, gateway, gateway_up>>

\* a raise after _require_strategy_locked: the back-fill of the cache is kept
Raise(name, id, cache, result) ==
    /\ strategies' = cache
    /\ channel_index' = rebuild_channel_index_locked(cache)
    /\ lastOp' = Outcome(name, id, FALSE, result, FALSE)
    /\ UNCHANGED <<db_strategies, db_strategy_seq, initialized_at, gateway, gateway_up>>

\* SQLitePersistence.create_strategy: the inserted row
new_strategy_row(name, channel_id, linked_at, is_active, t) ==
    [name |-> name,
     channel_id |-> channel_id,
     channel_linked_at |-> IF linked_at # NoTime THEN linked_at
                           ELSE IF channel_id # None THEN db_now(t) ELSE NoTime,
     is_active |-> is_active,
     is_paused |-> FALSE,
     created_at |-> db_now(t)]

\* a create whose lock block does not look at the admission cap
create_strategy_call_unchecked(name, identifier, activate, wait) ==
    /\ IF Strip(name) = "" \/ Strip(identifier) = ""
       THEN Fail("create", 0, activate, "ValidationError")
       ELSE IF resolve_channel(Strip(identifier)) = None
       THEN Fail("create", 0, activate, "GatewayError")
       ELSE LET id == db_strategy_seq + 1
                row == new_strategy_row(Strip(name), resolve_channel(Strip(identifier)),
                                        naive_iso(now), activate, now + wait)
                cache == store_strategy_locked(strategies, row_to_strategy(id, row))
            IN /\ db_strategy_seq' = id
               /\ db_strategies' = [i \in DOMAIN db_strategies \cup {id} |->
                                       IF i = id THEN row ELSE db_strategies[i]]
               /\ strategies' = cache
               /\ channel_index' = rebuild_channel_index_locked(cache)
               /\ gateway' = IF activate /\ gateway_up
                             THEN synchronise_channels(cache) ELSE gateway
               /\ lastOp' = Outcome("create", id, activate,
                                    IF activate /\ ~gateway_up THEN "GatewayError"
                                    ELSE "ok", activate)
               /\ UNCHANGED <<initialized_at, gateway_up>>

\* create_strategy; wait is the time that passes between taking linked_at
\* (after the gateway answered) and the INSERT under the registry lock
create_strategy_call(name, identifier, activate, wait) ==
    /\ IF Strip(name) = "" \/ Strip(identifier) = ""
       THEN Fail("create", 0, activate, "ValidationError")
       ELSE IF resolve_channel(Strip(identifier)) = None
       THEN Fail("create", 0, activate, "GatewayError")
       ELSE IF activate /\ count_active_locked(strategies) >= MAX_ACTIVE_STRATEGIES
       THEN Fail("create", 0, activate, "AdmissionExceeded")
       ELSE LET id == db_strategy_seq + 1
                row == new_strategy_row(Strip(name), resolve_channel(Strip(identifier)),
                                        naive_iso(now), activate, now + wait)
                cache == store_strategy_locked(strategies, row_to_strategy(id, row))
            IN /\ db_strategy_seq' = id
               /\ db_strategies' = [i \in DOMAIN db_strategies \cup {id} |->
                                       IF i = id THEN row ELSE db_strategies[i]]
               /\ strategies' = cache
               /\ channel_index' = rebuild_channel_index_locked(cache)
               /\ gateway' = IF activate /\ gateway_up
                             THEN synchronise_channels(cache) ELSE gateway
               /\ lastOp' = Outcome("create", id, activate,
                                    IF activate /\ ~gateway_up THEN "GatewayError"
                                    ELSE "ok", activate)
               /\ UNCHANGED <<initialized_at, gateway_up>>

create_strategy(name, identifier, activate, wait, maxStrategies) ==
    /\ db_strategy_seq < maxStrategies
    /\ now + wait <= MaxTime
    /\ now' = now + wait
    /\ UNCHANGED <<lastDispatch, poolVars, calls, lock>>
    /\ create_strategy_call(name, identifier, activate, wait)

\* an update whose synchronisation works on the channels read before the
\* lock block wrote the row
UpdateFlags_sync_before(name, id, cache, row, sync) ==
    LET cache2 == store_strategy_locked(cache, row_to_strategy(id, row))
    IN /\ db_strategies' = [db_strategies EXCEPT ![id] = row]
       /\ strategies' = cache2
       /\ channel_index' = rebuild_channel_index_locked(cache2)
       /\ gateway' = IF sync /\ gateway_up THEN synchronise_channels(cache) ELSE gateway
       /\ lastOp' = Outcome(name, id, FALSE,
                            IF sync /\ ~gateway_up THEN "GatewayError" ELSE "ok", sync)
       /\ UNCHANGED <<db_strategy_seq, initialized_at, gateway_up>>

\* an update that writes the map and leaves the channel index for later
UpdateFlags_index_later(name, id, cache, row, sync) ==
    LET cache2 == store_strategy_locked(cache, row_to_strategy(id, row))
    IN /\ db_strategies' = [db_strategies EXCEPT ![id] = row]
       /\ strategies' = cache2
       /\ channel_index' = rebuild_channel_index_locked(cache)
       /\ gateway' = IF sync /\ gateway_up THEN synchronise_channels(cache2) ELSE gateway
       /\ lastOp' = Outcome(name, id, FALSE,
                            IF sync /\ ~gateway_up THEN "GatewayError" ELSE "ok", sync)
       /\ UNCHANGED <<db_strategy_seq, initialized_at, gateway_up>>

\* a flag update of an existing row followed by the cache write-through
UpdateFlags(name, id, cache, row, sync) ==
    LET cache2 == store_strategy_locked(cache, row_to_strategy(id, row))
    IN /\ db_strategies' = [db_strategies EXCEPT ![id] = row]
       /\ strategies' = cache2
       /\ channel_index' = rebuild_channel_index_locked(cache2)
       /\ gateway' = IF sync /\ gateway_up THEN synchronise_channels(cache2) ELSE gateway
       /\ lastOp' = Outcome(name, id, FALSE,
                            IF sync /\ ~gateway_up THEN "GatewayError" ELSE "ok", sync)
       /\ UNCHANGED <<db_strategy_seq, initialized_at, gateway_up>>

\* an early "return strategy": only the back-fill of the cache is kept
Unchanged(name, id, cache) ==
    /\ strategies' = cache
    /\ channel_index' = rebuild_channel_index_locked(cache)
    /\ lastOp' = Outcome(name, id, FALSE, "noop", FALSE)
    /\ UNCHANGED <<db_strategies, db_strategy_seq, initialized_at, gateway, gateway_up>>

\* activate that sets is_active and leaves is_paused as it is
activate_strategy_keeps_pause(id) ==
    /\ UNCHANGED <<now, lastDispatch, poolVars, calls, lock>>
    /\ IF ~RequireFound(id) THEN Fail("activate", id, FALSE, "NotFound")
       ELSE LET cache == RequireCache(id)
                s == CacheGet(cache, id)
            IN IF s.is_active /\ ~s.is_paused THEN Unchanged("activate", id, cache)
               ELSE IF ~s.is_active /\ count_active_locked(cache) >= MAX_ACTIVE_STRATEGIES
               THEN Raise("activate", id, cache, "AdmissionExceeded")
               ELSE UpdateFlags("activate", id, cache,
                        [db_strategies[id] EXCEPT !.is_active = TRUE], TRUE)

\* activate_strategy: the lock block and, after it, the synchronisation
activate_strategy_call(id) ==
    /\ IF ~RequireFound(id) THEN Fail("activate", id, FALSE, "NotFound")
       ELSE LET cache == RequireCache(id)
                s == CacheGet(cache, id)
            IN IF s.is_active /\ ~s.is_paused THEN Unchanged("activate", id, cache)
               ELSE IF ~s.is_active /\ count_active_locked(cache) >= MAX_ACTIVE_STRATEGIES
               THEN Raise("activate", id, cache, "AdmissionExceeded")
               ELSE UpdateFlags("activate", id, cache,
                        [db_strategies[id] EXCEPT !.is_active = TRUE, !.is_paused = FALSE],
                        TRUE)

activate_strategy(id) ==
    /\ UNCHANGED <<now, lastDispatch, poolVars, calls, lock>>
    /\ activate_strategy_call(id)

\* deactivate that clears the pause together with is_active
deactivate_strategy_clears_pause(id) ==
    /\ UNCHANGED <<now, lastDispatch, poolVars, calls, lock>>
    /\ IF ~RequireFound(id) THEN Fail("deactivate", id, FALSE, "NotFound")
       ELSE LET cache == RequireCache(id)
                s == CacheGet(cache, id)
            IN IF ~s.is_active THEN Unchanged("deactivate", id, cache)
               ELSE UpdateFlags("deactivate", id, cache,
                        [db_strategies[id] EXCEPT !.is_active = FALSE, !.is_paused = FALSE],
                        TRUE)

\* deactivate_strategy: the lock block and, after it, the synchronisation
deactivate_strategy_call(id) ==
    /\ IF ~RequireFound(id) THEN Fail("deactivate", id, FALSE, "NotFound")
       ELSE LET cache == RequireCache(id)
                s == CacheGet(cache, id)
            IN IF ~s.is_active THEN Unchanged("deactivate", id, cache)
               ELSE UpdateFlags("deactivate", id, cache,
                        [db_strategies[id] EXCEPT !.is_active = FALSE], TRUE)

deactivate_strategy(id) ==
    /\ UNCHANGED <<now, lastDispatch, poolVars, calls, lock>>
    /\ deactivate_strategy_call(id)

\* pause that writes the flag to the store and leaves the cached strategy as is
pause_strategy_store_only(id) ==
    /\ UNCHANGED <<now, lastDispatch, poolVars, calls, lock>>
    /\ IF ~RequireFound(id) THEN Fail("pause", id, FALSE, "NotFound")
       ELSE LET cache == RequireCache(id)
                s == CacheGet(cache, id)
            IN IF s.is_paused THEN Unchanged("pause", id, cache)
               ELSE /\ db_strategies' = [db_strategies EXCEPT ![id].is_paused = TRUE]
                    /\ strategies' = cache
                    /\ channel_index' = rebuild_channel_index_locked(cache)
                    /\ lastOp' = Outcome("pause", id, FALSE, "ok", FALSE)
                    /\ UNCHANGED <<db_strategy_seq, initialized_at, gateway, gateway_up>>

\* pause_strategy: the lock block and, after it, the synchronisation
pause_strategy_call(id) ==
    /\ IF ~RequireFound(id) THEN Fail("pause", id, FALSE, "NotFound")
       ELSE LET cache == RequireCache(id)
                s == CacheGet(cache, id)
            IN IF s.is_paused THEN Unchanged("pause", id, cache)
               ELSE UpdateFlags("pause", id, cache,
                        [db_strategies[id] EXCEPT !.is_paused = TRUE], FALSE)

pause_strategy(id) ==
    /\ UNCHANGED <<now, lastDispatch, poolVars, calls, lock>>
    /\ pause_strategy_call(id)

\* resume that does not ask for an active strategy
resume_strategy_of_inactive(id) ==
    /\ UNCHANGED <<now, lastDispatch, poolVars, calls, lock>>
    /\ IF ~RequireFound(id) THEN Fail("resume", id, FALSE, "NotFound")
       ELSE LET cache == RequireCache(id)
                s == CacheGet(cache, id)
            IN IF ~s.is_paused THEN Unchanged("resume", id, cache)
               ELSE IF count_active_locked(cache) >= MAX_ACTIVE_STRATEGIES
               THEN Raise("resume", id, cache, "AdmissionExceeded")
               ELSE UpdateFlags("resume", id, cache,
                        [db_strategies[id] EXCEPT !.is_paused = FALSE], FALSE)

\* resume without the re-check of the admission cap
resume_strategy_unchecked(id) ==
    /\ UNCHANGED <<now, lastDispatch, poolVars, calls, lock>>
    /\ IF ~RequireFound(id) THEN Fail("resume", id, FALSE, "NotFound")
       ELSE LET cache == RequireCache(id)
                s == CacheGet(cache, id)
            IN IF ~s.is_active THEN Raise("resume", id, cache, "ValidationError")
               ELSE IF ~s.is_paused THEN Unchanged("resume", id, cache)
               ELSE UpdateFlags("resume", id, cache,
                        [db_strategies[id] EXCEPT !.is_paused = FALSE], FALSE)

\* resume_strategy: the lock block and, after it, the synchronisation
resume_strategy_call(id) ==
    /\ IF ~RequireFound(id) THEN Fail("resume", id, FALSE, "NotFound")
       ELSE LET cache == RequireCache(id)
                s == CacheGet(cache, id)
            IN IF ~s.is_active THEN Raise("resume", id, cache, "ValidationError")
               ELSE IF ~s.is_paused THEN Unchanged("resume", id, cache)
               ELSE IF count_active_locked(cache) >= MAX_ACTIVE_STRATEGIES
               THEN Raise("resume", id, cache, "AdmissionExceeded")
               ELSE UpdateFlags("resume", id, cache,
                        [db_strategies[id] EXCEPT !.is_paused = FALSE], FALSE)

resume_strategy(id) ==
    /\ UNCHANGED <<now, lastDispatch, poolVars, calls, lock>>
    /\ resume_strategy_call(id)

\* rename_strategy: the name is validated before the lock is taken
\* rename_strategy: the lock block and, after it, the synchronisation
rename_strategy_call(id, name) ==
    /\ IF Strip(name) = "" THEN Fail("rename", id, FALSE, "ValidationError")
       ELSE IF ~RequireFound(id) THEN Fail("rename", id, FALSE, "NotFound")
       ELSE UpdateFlags("rename", id, RequireCache(id),
                [db_strategies[id] EXCEPT !.name = Strip(name)], FALSE)

rename_strategy(id, name) ==
    /\ UNCHANGED <<now, lastDispatch, poolVars, calls, lock>>
    /\ rename_strategy_call(id, name)

\* assign_channel: linked_at is taken after the gateway resolved the channel
\* assign_channel: the lock block and, after it, the synchronisation
assign_channel_call(id, identifier) ==
    /\ IF Strip(identifier) = ""
       THEN Fail("assign", id, FALSE, "ValidationError")
       ELSE IF resolve_channel(Strip(identifier)) = None
       THEN Fail("assign", id, FALSE, "GatewayError")
       ELSE IF ~RequireFound(id) THEN Fail("assign", id, FALSE, "NotFound")
       ELSE UpdateFlags("assign", id, RequireCache(id),
                [db_strategies[id] EXCEPT
                    !.channel_id = resolve_channel(Strip(identifier)),
                    !.channel_linked_at = naive_iso(now)],
                TRUE)

assign_channel(id, identifier) ==
    /\ UNCHANGED <<now, lastDispatch, poolVars, calls, lock>>
    /\ assign_channel_call(id, identifier)

\* a delete that would remove the row and leave the cache as it is
delete_strategy_store_only(id) ==
    /\ UNCHANGED <<now, lastDispatch, poolVars, calls, lock>>
    /\ IF ~RequireFound(id) THEN Fail("delete", id, FALSE, "NotFound")
       ELSE LET cache == RequireCache(id)
            IN /\ db_strategies' = [i \in DOMAIN db_strategies \ {id} |-> db_strategies[i]]
               /\ strategies' = cache
               /\ channel_index' = rebuild_channel_index_locked(cache)
               /\ gateway' = IF gateway_up THEN synchronise_channels(cache) ELSE gateway
               /\ lastOp' = Outcome("delete", id, FALSE,
                                    IF gateway_up THEN "ok" ELSE "GatewayError", TRUE)
               /\ UNCHANGED <<db_strategy_seq, initialized_at, gateway_up>>

\* delete_strategy: the lock block and, after it, the synchronisation
delete_strategy_call(id) ==
    /\ IF ~RequireFound(id) THEN Fail("delete", id, FALSE, "NotFound")
       ELSE LET cache == CachePop(RequireCache(id), id)
            IN /\ db_strategies' = [i \in DOMAIN db_strategies \ {id} |-> db_strategies[i]]
               /\ strategies' = cache
               /\ channel_index' = rebuild_channel_index_locked(cache)
               /\ gateway' = IF gateway_up THEN synchronise_channels(cache) ELSE gateway
               /\ lastOp' = Outcome("delete", id, FALSE,
                                    IF gateway_up THEN "ok" ELSE "GatewayError", TRUE)
               /\ UNCHANGED <<db_strategy_seq, initialized_at, gateway_up>>

delete_strategy(id) ==
    /\ UNCHANGED <<now, lastDispatch, poolVars, calls, lock>>
    /\ delete_strategy_call(id)

\* ------------------------------------------------------------- dispatcher
Tick(max) ==
    /\ NoSyncStep
    /\ now < max
    /\ now' = now + 1
    /\ UNCHANGED <<registryVars, lastDispatch, poolVars, calls, lock>>

\* the messages the gateway callback delivers: {channel_id, telegram_id,
\* message, created_at}; created_at may carry a UTC offset or not, or be absent
Messages(channels) ==
    {[channel_id |-> c, telegram_id |-> 1, message |-> "buy", created_at |-> d] :
        c \in channels,
        d \in {NoTime} \cup {[t |-> t, aware |-> a] : t \in 0..MaxTime, a \in BOOLEAN}}
      \cup {[channel_id |-> c, telegram_id |-> 1, message |-> x, created_at |-> NoTime] :
              c \in channels, x \in Texts}
      \cup {[channel_id |-> None, telegram_id |-> 1, message |-> "buy", created_at |-> NoTime],
            [channel_id |-> CHOOSE c \in channels : TRUE, telegram_id |-> 0,
             message |-> "buy", created_at |-> NoTime]}

\* created_at = self._parse_timestamp(...) or datetime.utcnow()
MessageTime(m) == IF m.created_at = NoTime THEN utcnow ELSE m.created_at

\* whitespace-only text counts as no text
RawMessage(m) ==
    IF m.message # None /\ Strip(m.message) = "" THEN None ELSE m.message

\* threshold = strategy.channel_linked_at or strategy.created_at
Threshold(s) ==
    IF s.channel_linked_at # NoTime THEN s.channel_linked_at ELSE s.created_at

SignalJob(s, m) ==
    [strategy_id |-> s.id,
     channel_id |-> m.channel_id,
     telegram_message_id |-> m.telegram_id,
     raw_message |-> RawMessage(m),
     received_at |-> MessageTime(m)]

\* the for loop of handle_incoming_message over the snapshot: the jobs it
\* hands to enqueue, and whether a comparison raised TypeError on the way
RECURSIVE DispatchLoop(_, _)
DispatchLoop(snapshot, m) ==
    IF snapshot = <<>> THEN [raised |-> FALSE, jobs |-> <<>>]
    ELSE LET s == Head(snapshot)
             rest == DispatchLoop(Tail(snapshot), m)
         IN IF ~s.is_active \/ s.is_paused THEN rest
            ELSE IF Threshold(s) # NoTime /\ ~Comparable(MessageTime(m), Threshold(s))
            THEN [raised |-> TRUE, jobs |-> <<>>]
            ELSE IF Threshold(s) # NoTime /\ MessageTime(m).t < Threshold(s).t THEN rest
            ELSE IF RawMessage(m) = None THEN rest
            ELSE [raised |-> rest.raised, jobs |-> <<SignalJob(s, m)>> \o rest.jobs]

\* strategies = [self._strategies[sid] for sid in index.get(channel_id, [])]
Snapshot(c) ==
    IF c \in DOMAIN channel_index
    THEN LET ids == SelectSeq(channel_index[c], LAMBDA i : i \in CacheIds(strategies))
         IN [k \in 1..Len(ids) |-> CacheGet(strategies, ids[k])]
    ELSE <<>>

Dispatched(m, raised, jobs) ==
    /\ lastDispatch' = [message |-> m, raised |-> raised,
                        enqueued |-> IF shutdown THEN <<>> ELSE jobs]
    /\ queue' = IF shutdown THEN queue ELSE queue \o jobs

handle_incoming_message(m) ==
    /\ Len(queue) < MaxQueue
    /\ UNCHANGED <<now, registryVars, calls, lock, shutdown, workers, wstate, wjob, wprocessed_at, wresult,
                   stopper, retention_hours, parser_configured, signals, signal_seq,
                   accepted, upserts, purged_total, stop_called, stop_since_start, dropped, starts, faults,
                   last_insert_rowid, wsignal>>
    /\ IF m.channel_id = None \/ m.telegram_id <= 0
       THEN Dispatched(m, FALSE, <<>>)
       ELSE IF ~Comparable(MessageTime(m), initialized_at)
       THEN Dispatched(m, TRUE, <<>>)
       ELSE IF MessageTime(m).t < initialized_at.t
       THEN Dispatched(m, FALSE, <<>>)
       ELSE LET r == DispatchLoop(Snapshot(m.channel_id), m)
            IN Dispatched(m, r.raised, r.jobs)

DispatchNext ==
    \/ Tick(MaxTime)
    \/ initialize
    \/ \E c \in DispatchChannels, a \in BOOLEAN, w \in 0..MaxLockWait :
          create_strategy("A", c, a, w, MaxDispatchStrategies)
    \/ \E id \in TargetIds(MaxDispatchStrategies), c \in DispatchChannels :
          assign_channel(id, c)
    \/ \E id \in TargetIds(MaxDispatchStrategies) : pause_strategy(id)
    \/ \E m \in Messages(MessageChannels) : handle_incoming_message(m)

\* the registry and the dispatcher never read the parser: one configuration
\* of it is enough for them
InitConfigured == Init /\ parser_configured

SpecDispatch == InitConfigured /\ [][DispatchNext]_vars

\* -------------------------------------------------------- signal processor
\* comparison of two ISO timestamp texts of whole seconds, as SQLite compares
\* TEXT: for the same second the text without offset is a proper prefix of the
\* one that ends in "+00:00"
TextLess(a, b) == a.t < b.t \/ (a.t = b.t /\ ~a.aware /\ b.aware)

\* value.replace(microsecond=0).isoformat()
iso_seconds(d) == [t |-> Truncate(d.t), aware |-> d.aware]

RawTexts == {"buy", None}

\* the jobs handed to enqueue
Jobs ==
    {[strategy_id |-> s, channel_id |-> "100", telegram_message_id |-> m,
      raw_message |-> x, received_at |-> [t |-> 0, aware |-> TRUE]] :
        s \in 1..MaxJobStrategy, m \in 1..MaxMessageId, x \in RawTexts}

ParsedPayload == [symbol |-> "EURUSD", action |-> "BUY"]

FallbackPayload(error) ==
    [symbol |-> "NA", action |-> "NONE", entry |-> "NA", take_profit |-> <<>>,
     stop_loss |-> "NA", notes |-> "Parser failed", error |-> error]

Parsed == [status |-> "parsed", error |-> None, payload |-> ParsedPayload]

\* the except branch with the status left at its initial "parsed"
FailedStatusKept(error) ==
    [status |-> "parsed", error |-> error, payload |-> FallbackPayload(error)]

Failed(error) == [status |-> "failed", error |-> error, payload |-> FallbackPayload(error)]

\* everything the try block of _process_job can end with
ParseResults ==
    {Parsed} \cup {Failed(e) : e \in {"Cannot parse empty signal message.",
                                      "OpenAI API key is not configured.",
                                      "OpenAI request failed"}}

\* SignalParser.parse(job.raw_message or "") inside the try of _process_job
ParseOutcomes(job) ==
    IF job.raw_message = None \/ Strip(job.raw_message) = ""
    THEN {Failed("Cannot parse empty signal message.")}
    ELSE IF ~parser_configured
    THEN {Failed("OpenAI API key is not configured.")}
    ELSE {Parsed, Failed("OpenAI request failed")}

SameKey(r, job) ==
    r.strategy_id = job.strategy_id /\ r.telegram_message_id = job.telegram_message_id

\* the INSERT with ON CONFLICT DO NOTHING: a known key keeps its row
record_signal_insert_only(rows, seq, job, out, processed_at) ==
    IF \E r \in rows : SameKey(r, job)
    THEN rows
    ELSE rows \cup {[id |-> seq + 1,
                     strategy_id |-> job.strategy_id,
                     channel_id |-> job.channel_id,
                     telegram_message_id |-> job.telegram_message_id,
                     raw_message |-> job.raw_message,
                     parsed_payload |-> out.payload,
                     status |-> out.status,
                     error |-> out.error,
                     received_at |-> iso_seconds(job.received_at),
                     processed_at |-> processed_at]}

\* the statement as INSERT OR REPLACE: the row of a known key is written anew
record_signal_replace(rows, seq, job, out, processed_at) ==
    {r \in rows : ~SameKey(r, job)}
        \cup {[id |-> seq + 1,
               strategy_id |-> job.strategy_id,
               channel_id |-> job.channel_id,
               telegram_message_id |-> job.telegram_message_id,
               raw_message |-> job.raw_message,
               parsed_payload |-> out.payload,
               status |-> out.status,
               error |-> out.error,
               received_at |-> iso_seconds(job.received_at),
               processed_at |-> processed_at]}

\* INSERT ... ON CONFLICT(strategy_id, telegram_message_id) DO UPDATE
record_signal(rows, seq, job, out, processed_at) ==
    IF \E r \in rows : SameKey(r, job)
    THEN {IF SameKey(r, job)
          THEN [r EXCEPT !.raw_message = job.raw_message,
                         !.parsed_payload = out.payload,
                         !.status = out.status,
                         !.error = out.error,
                         !.processed_at = processed_at]
          ELSE r : r \in rows}
    ELSE rows \cup {[id |-> seq + 1,
                     strategy_id |-> job.strategy_id,
                     channel_id |-> job.channel_id,
                     telegram_message_id |-> job.telegram_message_id,
                     raw_message |-> job.raw_message,
                     parsed_payload |-> out.payload,
                     status |-> out.status,
                     error |-> out.error,
                     received_at |-> iso_seconds(job.received_at),
                     processed_at |-> processed_at]}

\* the DELETE with processed_at <= ?
purge_signals_through_cutoff(rows, cutoff) ==
    {r \in rows : TextLess(cutoff, r.processed_at)}

\* DELETE FROM strategy_signals WHERE processed_at < ?
purge_signals_older_than(rows, cutoff) ==
    {r \in rows : ~TextLess(r.processed_at, cutoff)}

\* (datetime.utcnow() - self._retention).replace(microsecond=0).isoformat()
Cutoff == naive_iso(now - retention_hours * TicksPerHour)

\* a start() that would spawn its workers without looking at the worker list
start_always_spawns ==
    /\ NoSyncStep
    /\ starts < MaxStarts
    /\ shutdown' = FALSE
    /\ workers' = Workers
    /\ wstate' = [w \in Workers |-> "ready"]
    /\ starts' = starts + 1
    /\ stop_since_start' = "none"
    /\ UNCHANGED <<now, registryVars, calls, lock, lastDispatch, queue, wjob, wprocessed_at, wresult, stopper,
                   retention_hours, parser_configured, signals, signal_seq,
                   accepted, upserts, purged_total, stop_called, dropped, faults,
                   last_insert_rowid, wsignal>>

start ==
    /\ NoSyncStep
    /\ starts < MaxStarts
    /\ IF workers # {}
       THEN UNCHANGED <<shutdown, workers, wstate, starts>>
       ELSE /\ shutdown' = FALSE
            /\ workers' = Workers
            /\ wstate' = [w \in Workers |-> "ready"]
            /\ starts' = starts + 1
    /\ stop_since_start' = "none"
    /\ UNCHANGED <<now, registryVars, calls, lock, lastDispatch, queue, wjob, wprocessed_at, wresult, stopper,
                   retention_hours, parser_configured, signals, signal_seq,
                   accepted, upserts, purged_total, stop_called, dropped, faults,
                   last_insert_rowid, wsignal>>

\* a stop() that would push a single sentinel whatever the number of workers
stop_begin_one_sentinel ==
    /\ NoSyncStep
    /\ stopper = "idle"
    /\ IF workers = {}
       THEN /\ stop_since_start' = IF stop_since_start = "stopped"
                                    THEN "stopped" ELSE "returned_at_once"
            /\ UNCHANGED <<shutdown, queue, stopper, stop_called>>
       ELSE /\ shutdown' = TRUE
            /\ queue' = Append(queue, Sentinel)
            /\ stopper' = "gathering"
            /\ stop_called' = TRUE
            /\ stop_since_start' = "stopped"
    /\ UNCHANGED <<now, registryVars, calls, lock, lastDispatch, workers, wstate, wjob, wprocessed_at, wresult,
                   retention_hours, parser_configured, signals, signal_seq,
                   accepted, upserts, purged_total, dropped, starts, faults,
                   last_insert_rowid, wsignal>>

\* stop() up to its await of asyncio.gather
stop_begin ==
    /\ NoSyncStep
    /\ stopper = "idle"
    /\ IF workers = {}
       THEN /\ stop_since_start' = IF stop_since_start = "stopped"
                                    THEN "stopped" ELSE "returned_at_once"
            /\ UNCHANGED <<shutdown, queue, stopper, stop_called>>
       ELSE /\ shutdown' = TRUE
            /\ queue' = queue \o [i \in 1..Cardinality(workers) |-> Sentinel]
            /\ stopper' = "gathering"
            /\ stop_called' = TRUE
            /\ stop_since_start' = "stopped"
    /\ UNCHANGED <<now, registryVars, calls, lock, lastDispatch, workers, wstate, wjob, wprocessed_at, wresult,
                   retention_hours, parser_configured, signals, signal_seq,
                   accepted, upserts, purged_total, dropped, starts, faults,
                   last_insert_rowid, wsignal>>

\* gather returns once every worker task has finished, then _workers.clear()
stop_return ==
    /\ NoSyncStep
    /\ stopper = "gathering"
    /\ \A w \in workers : wstate[w] = "exited"
    /\ workers' = {}
    /\ wstate' = [w \in Workers |-> "absent"]
    /\ stopper' = "idle"
    /\ UNCHANGED <<now, registryVars, calls, lock, lastDispatch, queue, shutdown, wjob, wprocessed_at, wresult,
                   retention_hours, parser_configured, signals, signal_seq,
                   accepted, upserts, purged_total, stop_called, stop_since_start, dropped, starts, faults,
                   last_insert_rowid, wsignal>>

\* an enqueue that would not look at the shutdown flag
enqueue_unchecked(job) ==
    /\ NoSyncStep
    /\ Len(accepted) < MaxJobs
    /\ queue' = Append(queue, job)
    /\ accepted' = Append(accepted, job)
    /\ UNCHANGED <<now, registryVars, calls, lock, lastDispatch, shutdown, workers, wstate, wjob,
                   wprocessed_at, wresult, stopper, retention_hours, parser_configured,
                   signals, signal_seq, upserts, purged_total, stop_called,
                   stop_since_start, dropped, starts, faults,
                   last_insert_rowid, wsignal>>

enqueue(job) ==
    /\ NoSyncStep
    /\ Len(accepted) < MaxJobs
    /\ IF shutdown
       THEN /\ dropped < MaxDropped
            /\ dropped' = dropped + 1
            /\ UNCHANGED <<queue, accepted>>
       ELSE /\ queue' = Append(queue, job)
            /\ accepted' = Append(accepted, job)
            /\ UNCHANGED dropped
    /\ UNCHANGED <<now, registryVars, calls, lock, lastDispatch, shutdown, workers, wstate, wjob,
                   wprocessed_at, wresult, stopper, retention_hours, parser_configured,
                   signals, signal_seq, upserts, purged_total, stop_called,
                   stop_since_start, starts, faults,
                   last_insert_rowid, wsignal>>

\* a queue.get() that would hand out the oldest item and leave it queued
TakeAndKeep(w) ==
    /\ queue' = queue
    /\ IF Head(queue) = Sentinel
       THEN /\ wstate' = [wstate EXCEPT ![w] = "exited"]
            /\ wjob' = [wjob EXCEPT ![w] = NoJob]
            /\ wprocessed_at' = [wprocessed_at EXCEPT ![w] = NoTime]
       ELSE /\ wstate' = [wstate EXCEPT ![w] = "parsing"]
            /\ wjob' = [wjob EXCEPT ![w] = Head(queue)]
            /\ wprocessed_at' = [wprocessed_at EXCEPT ![w] = utcnow]

\* a queue.get() that would hand out the newest item instead of the oldest
TakeNewest(w) ==
    /\ queue' = SubSeq(queue, 1, Len(queue) - 1)
    /\ IF queue[Len(queue)] = Sentinel
       THEN /\ wstate' = [wstate EXCEPT ![w] = "exited"]
            /\ wjob' = [wjob EXCEPT ![w] = NoJob]
            /\ wprocessed_at' = [wprocessed_at EXCEPT ![w] = NoTime]
       ELSE /\ wstate' = [wstate EXCEPT ![w] = "parsing"]
            /\ wjob' = [wjob EXCEPT ![w] = queue[Len(queue)]]
            /\ wprocessed_at' = [wprocessed_at EXCEPT ![w] = utcnow]

\* queue.get() handing out the item without the worker processing it
TakeAndDrop(w) ==
    /\ queue' = Tail(queue)
    /\ wstate' = [wstate EXCEPT ![w] = IF Head(queue) = Sentinel
                                      THEN "exited" ELSE "waiting"]
    /\ wjob' = [wjob EXCEPT ![w] = NoJob]
    /\ wprocessed_at' = [wprocessed_at EXCEPT ![w] = NoTime]

\* job = await self._queue.get() returned an item
Take(w) ==
    /\ queue' = Tail(queue)
    /\ IF Head(queue) = Sentinel
       THEN /\ wstate' = [wstate EXCEPT ![w] = "exited"]
            /\ wjob' = [wjob EXCEPT ![w] = NoJob]
            /\ wprocessed_at' = [wprocessed_at EXCEPT ![w] = NoTime]
       ELSE /\ wstate' = [wstate EXCEPT ![w] = "parsing"]
            /\ wjob' = [wjob EXCEPT ![w] = Head(queue)]
            /\ wprocessed_at' = [wprocessed_at EXCEPT ![w] = utcnow]

\* the head of the while loop of _worker: leave when the shutdown flag is
\* set, else take the next item, suspending in queue.get() on an empty queue
LoopHead(w) ==
    IF shutdown
    THEN /\ wstate' = [wstate EXCEPT ![w] = "exited"]
         /\ wjob' = [wjob EXCEPT ![w] = NoJob]
         /\ wprocessed_at' = [wprocessed_at EXCEPT ![w] = NoTime]
         /\ UNCHANGED queue
    ELSE IF queue = <<>>
    THEN /\ wstate' = [wstate EXCEPT ![w] = "waiting"]
         /\ wjob' = [wjob EXCEPT ![w] = NoJob]
         /\ wprocessed_at' = [wprocessed_at EXCEPT ![w] = NoTime]
         /\ UNCHANGED queue
    ELSE Take(w)

\* a spawned worker task runs for the first time
worker_loop(w) ==
    /\ NoSyncStep
    /\ wstate[w] = "ready"
    /\ LoopHead(w)
    /\ UNCHANGED <<now, registryVars, calls, lock, lastDispatch, shutdown, workers, wresult, stopper,
                   retention_hours, parser_configured, signals, signal_seq,
                   accepted, upserts, purged_total, stop_called, stop_since_start, dropped, starts, faults,
                   last_insert_rowid, wsignal>>

\* a worker suspended in queue.get() is handed the next item
worker_wake(w) ==
    /\ NoSyncStep
    /\ wstate[w] = "waiting"
    /\ queue # <<>>
    /\ Take(w)
    /\ UNCHANGED <<now, registryVars, calls, lock, lastDispatch, shutdown, workers, wresult, stopper,
                   retention_hours, parser_configured, signals, signal_seq,
                   accepted, upserts, purged_total, stop_called, stop_since_start, dropped, starts, faults,
                   last_insert_rowid, wsignal>>

\* cur.lastrowid after the INSERT ... ON CONFLICT statement: the rowid of the
\* row it inserted or, when it updated a row, the rowid of the last row the
\* connection inserted before, in whatever table
lastrowid_after(rows, seq, rowid, job) ==
    IF \E r \in rows : SameKey(r, job) THEN rowid ELSE seq + 1

\* the row record_signal returns: SELECT ... WHERE id = lastrowid, the id
\* being looked up by the key only when lastrowid is 0; NoSignal stands for the
\* RuntimeError raised when no row has that id
record_signal_row(rows, rowid, job) ==
    LET signal_id == IF rowid # 0 THEN rowid
                     ELSE IF \E r \in rows : SameKey(r, job)
                          THEN (CHOOSE r \in rows : SameKey(r, job)).id
                          ELSE 0
    IN IF \E r \in rows : r.id = signal_id
       THEN CHOOSE r \in rows : r.id = signal_id
       ELSE NoSignal

\* the parser call of _process_job returns or raises; record_signal follows.
\* When record_signal raises RuntimeError after its commit, _worker catches
\* it and goes back to the head of its loop: no purge, no callback
process_job(w, out) ==
    /\ \A v \in Workers \ {w} : ~InSyncCode(v)
    /\ wstate[w] = "parsing"
    /\ out \in ParseOutcomes(wjob[w])
    /\ signals' = record_signal(signals, signal_seq, wjob[w], out,
                                naive_iso(wprocessed_at[w].t))
    /\ signal_seq' = IF \E r \in signals : SameKey(r, wjob[w])
                     THEN signal_seq ELSE signal_seq + 1
    /\ last_insert_rowid' = lastrowid_after(signals, signal_seq, last_insert_rowid, wjob[w])
    /\ upserts' = upserts + 1
    /\ LET row == record_signal_row(signals', last_insert_rowid', wjob[w])
       IN IF row = NoSignal
          THEN /\ LoopHead(w)
               /\ wresult' = [wresult EXCEPT ![w] = NoResult]
               /\ wsignal' = [wsignal EXCEPT ![w] = NoSignal]
          ELSE /\ wstate' = [wstate EXCEPT ![w] = "recorded"]
               /\ wresult' = [wresult EXCEPT ![w] = out]
               /\ wsignal' = [wsignal EXCEPT ![w] = row]
               /\ UNCHANGED <<queue, wjob, wprocessed_at>>
    /\ UNCHANGED <<now, registryVars, calls, lock, lastDispatch, shutdown, workers,
                   stopper, retention_hours, parser_configured,
                   accepted, purged_total, stop_called, stop_since_start, dropped, starts, faults>>

\* the purge that ends _process_job (no callback is configured), then
\* task_done and the head of the loop, which run without an await
purge(w) ==
    /\ wstate[w] = "recorded"
    /\ signals' = purge_signals_older_than(signals, Cutoff)
    /\ LoopHead(w)
    /\ wresult' = [wresult EXCEPT ![w] = NoResult]
    /\ wsignal' = [wsignal EXCEPT ![w] = NoSignal]
    /\ purged_total' = purged_total
            + Cardinality(signals \ purge_signals_older_than(signals, Cutoff))
    /\ UNCHANGED <<now, registryVars, calls, lock, lastDispatch, shutdown, workers, stopper,
                   retention_hours, parser_configured, signal_seq,
                   accepted, upserts, stop_called, stop_since_start, dropped, starts, faults,
                   last_insert_rowid>>

\* ------------------------------------------- store and sink calls that raise
Fault(kind, w) == [kind |-> kind, worker |-> w, job |-> wjob[w]]

\* a store failure that would leave _worker uncaught and end the worker task
record_signal_fails_uncaught(w) ==
    /\ \A v \in Workers \ {w} : ~InSyncCode(v)
    /\ wstate[w] = "parsing"
    /\ Len(faults) < MaxFaults
    /\ faults' = Append(faults, Fault("upsert", w))
    /\ wstate' = [wstate EXCEPT ![w] = "exited"]
    /\ wjob' = [wjob EXCEPT ![w] = NoJob]
    /\ wprocessed_at' = [wprocessed_at EXCEPT ![w] = NoTime]
    /\ wresult' = [wresult EXCEPT ![w] = NoResult]
    /\ UNCHANGED <<now, registryVars, calls, lock, lastDispatch, queue, shutdown, workers, stopper,
                   retention_hours, parser_configured, signals, signal_seq,
                   accepted, upserts, purged_total, stop_called, stop_since_start,
                   dropped, starts,
                   last_insert_rowid, wsignal>>

\* record_signal raises: the transaction is rolled back, the exception leaves
\* _process_job and is caught and logged by _worker, which calls task_done
\* and goes back to the head of its loop
record_signal_fails(w) ==
    /\ \A v \in Workers \ {w} : ~InSyncCode(v)
    /\ wstate[w] = "parsing"
    /\ Len(faults) < MaxFaults
    /\ faults' = Append(faults, Fault("upsert", w))
    /\ LoopHead(w)
    /\ wresult' = [wresult EXCEPT ![w] = NoResult]
    /\ UNCHANGED <<now, registryVars, calls, lock, lastDispatch, shutdown, workers, stopper,
                   retention_hours, parser_configured, signals, signal_seq,
                   accepted, upserts, purged_total, stop_called, stop_since_start,
                   dropped, starts,
                   last_insert_rowid, wsignal>>

\* purge_signals_older_than raises after record_signal has committed
purge_fails(w) ==
    /\ wstate[w] = "recorded"
    /\ Len(faults) < MaxFaults
    /\ faults' = Append(faults, Fault("purge", w))
    /\ LoopHead(w)
    /\ wresult' = [wresult EXCEPT ![w] = NoResult]
    /\ wsignal' = [wsignal EXCEPT ![w] = NoSignal]
    /\ UNCHANGED <<now, registryVars, calls, lock, lastDispatch, shutdown, workers, stopper,
                   retention_hours, parser_configured, signals, signal_seq,
                   accepted, upserts, purged_total, stop_called, stop_since_start,
                   dropped, starts,
                   last_insert_rowid>>

\* the purge of _process_job when a callback is configured: the worker goes
\* on to await self._callback(signal)
purge_and_notify(w) ==
    /\ wstate[w] = "recorded"
    /\ signals' = purge_signals_older_than(signals, Cutoff)
    /\ purged_total' = purged_total
            + Cardinality(signals \ purge_signals_older_than(signals, Cutoff))
    /\ wstate' = [wstate EXCEPT ![w] = "notifying"]
    /\ UNCHANGED <<now, registryVars, calls, lock, lastDispatch, queue, shutdown, workers, wjob,
                   wprocessed_at, wresult, stopper, retention_hours, parser_configured,
                   signal_seq, accepted, upserts, stop_called, stop_since_start,
                   dropped, starts, faults,
                   last_insert_rowid, wsignal>>

\* a callback return that would send the worker back to the purge
callback_returns_to_purge(w) ==
    /\ NoSyncStep
    /\ wstate[w] = "notifying"
    /\ wstate' = [wstate EXCEPT ![w] = "recorded"]
    /\ UNCHANGED <<now, registryVars, calls, lock, lastDispatch, queue, shutdown, workers, wjob,
                   wprocessed_at, wresult, stopper, retention_hours, parser_configured,
                   signals, signal_seq, accepted, upserts, purged_total, stop_called,
                   stop_since_start, dropped, starts, faults, last_insert_rowid, wsignal>>

\* the callback returns: task_done and the head of the loop
callback_returns(w) ==
    /\ NoSyncStep
    /\ wstate[w] = "notifying"
    /\ LoopHead(w)
    /\ wresult' = [wresult EXCEPT ![w] = NoResult]
    /\ wsignal' = [wsignal EXCEPT ![w] = NoSignal]
    /\ UNCHANGED <<now, registryVars, calls, lock, lastDispatch, shutdown, workers, stopper,
                   retention_hours, parser_configured, signals, signal_seq,
                   accepted, upserts, purged_total, stop_called, stop_since_start,
                   dropped, starts, faults,
                   last_insert_rowid>>

\* a callback failure that would leave _process_job and end the worker task
callback_raises_uncaught(w) ==
    /\ NoSyncStep
    /\ wstate[w] = "notifying"
    /\ Len(faults) < MaxFaults
    /\ faults' = Append(faults, Fault("sink", w))
    /\ wstate' = [wstate EXCEPT ![w] = "exited"]
    /\ wjob' = [wjob EXCEPT ![w] = NoJob]
    /\ wprocessed_at' = [wprocessed_at EXCEPT ![w] = NoTime]
    /\ wresult' = [wresult EXCEPT ![w] = NoResult]
    /\ wsignal' = [wsignal EXCEPT ![w] = NoSignal]
    /\ UNCHANGED <<now, registryVars, calls, lock, lastDispatch, queue, shutdown, workers, stopper,
                   retention_hours, parser_configured, signals, signal_seq,
                   accepted, upserts, purged_total, stop_called, stop_since_start,
                   dropped, starts,
                   last_insert_rowid>>

\* the callback raises: the exception is caught and logged in _process_job
callback_raises(w) ==
    /\ NoSyncStep
    /\ wstate[w] = "notifying"
    /\ Len(faults) < MaxFaults
    /\ faults' = Append(faults, Fault("sink", w))
    /\ LoopHead(w)
    /\ wresult' = [wresult EXCEPT ![w] = NoResult]
    /\ wsignal' = [wsignal EXCEPT ![w] = NoSignal]
    /\ UNCHANGED <<now, registryVars, calls, lock, lastDispatch, shutdown, workers, stopper,
                   retention_hours, parser_configured, signals, signal_seq,
                   accepted, upserts, purged_total, stop_called, stop_since_start,
                   dropped, starts,
                   last_insert_rowid>>

\* ------------------------------------------------- the store's connection
\* an INSERT into another table through the same connection (save_message,
\* create_strategy, set_setting, create_user): it moves last_insert_rowid
save_message(rowid) ==
    /\ NoSyncStep
    /\ last_insert_rowid' = rowid
    /\ UNCHANGED <<now, registryVars, calls, lock, lastDispatch, queue, shutdown, workers, wstate, wjob,
                   wprocessed_at, wresult, stopper, retention_hours, parser_configured,
                   signals, signal_seq, accepted, upserts, purged_total, stop_called,
                   stop_since_start, dropped, starts, faults, wsignal>>

\* jobs of one message id that differ in strategy, channel and received_at
StoreJobs ==
    {[strategy_id |-> s, channel_id |-> c, telegram_message_id |-> 1,
      raw_message |-> "buy", received_at |-> [t |-> t, aware |-> TRUE]] :
        s \in 1..MaxJobStrategy, c \in DispatchChannels, t \in {0, TicksPerSecond}}

\* the running pool with a callback, over a connection other tables are
\* written through
StoreNext ==
    \/ Tick(TicksPerSecond)
    \/ start
    \/ \E job \in StoreJobs : enqueue(job)
    \/ \E w \in Workers : worker_loop(w)
    \/ \E w \in Workers : worker_wake(w)
    \/ \E w \in Workers, out \in ParseResults : process_job(w, out)
    \/ \E w \in Workers : purge_and_notify(w)
    \/ \E w \in Workers : callback_returns(w)
    \/ \E rowid \in 1..MaxOtherRowid : save_message(rowid)

SpecStore == InitConfigured /\ [][StoreNext]_vars

\* the pool with a callback configured, a store and a sink that can raise;
\* no time passes, so that no purge deletes a row
PoolFaultsNext ==
    \/ start
    \/ stop_begin
    \/ stop_return
    \/ \E job \in Jobs : enqueue(job)
    \/ \E w \in Workers : worker_loop(w)
    \/ \E w \in Workers : worker_wake(w)
    \/ \E w \in Workers, out \in ParseResults : process_job(w, out)
    \/ \E w \in Workers : record_signal_fails(w)
    \/ \E w \in Workers : purge_and_notify(w)
    \/ \E w \in Workers : purge_fails(w)
    \/ \E w \in Workers : callback_returns(w)
    \/ \E w \in Workers : callback_raises(w)

SpecPoolFaults == Init /\ [][PoolFaultsNext]_vars

\* the event loop runs every worker task that can run, and every parser,
\* store and callback call returns or raises
FaultsFairness ==
    \A w \in Workers :
        /\ WF_vars(worker_loop(w))
        /\ WF_vars(worker_wake(w))
        /\ WF_vars(\E out \in ParseResults : process_job(w, out))
        /\ WF_vars(purge_and_notify(w))
        /\ WF_vars(callback_returns(w))

SpecPoolFaultsFair == SpecPoolFaults /\ FaultsFairness

PoolNext ==
    \/ Tick(MaxPoolTime)
    \/ start
    \/ stop_begin
    \/ stop_return
    \/ \E job \in Jobs : enqueue(job)
    \/ \E w \in Workers : worker_loop(w)
    \/ \E w \in Workers : worker_wake(w)
    \/ \E w \in Workers, out \in ParseResults : process_job(w, out)
    \/ \E w \in Workers : purge(w)

SpecPool == Init /\ [][PoolNext]_vars

\* the event loop runs every worker task that can run, and every parser call
\* returns or raises
WorkerFairness ==
    \A w \in Workers :
        /\ WF_vars(worker_loop(w))
        /\ WF_vars(worker_wake(w))
        /\ WF_vars(\E out \in ParseResults : process_job(w, out))
        /\ WF_vars(purge(w))

SpecPoolFair == SpecPool /\ WorkerFairness

\* the worker whose awaited parser call may never return; the workers run
\* the same code, so which one it is does not matter
HungWorker == 1

\* as WorkerFairness, except that a parser call of HungWorker that has
\* reached its await need never return
HangFairness ==
    /\ \A w \in Workers :
          /\ WF_vars(worker_loop(w))
          /\ WF_vars(worker_wake(w))
          /\ WF_vars(purge(w))
    /\ \A w \in Workers \ {HungWorker} :
          WF_vars(\E out \in ParseResults : process_job(w, out))
    /\ WF_vars(wstate[HungWorker] = "parsing" /\ RaisesAtOnce(wjob[HungWorker])
                 /\ \E out \in ParseResults : process_job(HungWorker, out))

SpecPoolHang == SpecPool /\ HangFairness

\* and the stop() call suspended in asyncio.gather resumes once every worker
\* task has finished
SpecPoolStop == SpecPoolFair /\ WF_vars(stop_return)

\* ---------------------------------------------------- registry lifecycle
\* the process starts again: a new StrategyService, with an empty cache, and
\* a new gateway over the store the previous process left
restart ==
    /\ strategies' = <<>>
    /\ channel_index' = <<>>
    /\ initialized_at' = utcnow
    /\ gateway' = [op |-> "none"]
    /\ lastOp' = Outcome("restart", 0, FALSE, "ok", FALSE)
    /\ UNCHANGED <<now, db_strategies, db_strategy_seq, gateway_up, lastDispatch, poolVars, calls, lock>>

\* the gateway loses or regains its connection
gateway_switch ==
    /\ gateway_up' = ~gateway_up
    /\ UNCHANGED <<now, db_strategies, db_strategy_seq, strategies, channel_index,
                   initialized_at, gateway, lastOp, lastDispatch, poolVars, calls, lock>>

RenameInputs == {"B", " "}
AssignInputs == DispatchChannels \cup {" "}

LifecycleNext ==
    \/ initialize
    \/ restart
    \/ gateway_switch
    \/ \E in \in CreateInputs(DispatchChannels), a \in BOOLEAN :
          create_strategy(in.name, in.identifier, a, 0, MaxLifecycleStrategies)
    \/ \E id \in 1..MaxLifecycleStrategies, n \in RenameInputs : rename_strategy(id, n)
    \/ \E id \in 1..MaxLifecycleStrategies, c \in AssignInputs : assign_channel(id, c)
    \/ \E id \in 1..MaxLifecycleStrategies : activate_strategy(id)
    \/ \E id \in 1..MaxLifecycleStrategies : deactivate_strategy(id)
    \/ \E id \in 1..MaxLifecycleStrategies : pause_strategy(id)
    \/ \E id \in 1..MaxLifecycleStrategies : resume_strategy(id)
    \/ \E id \in 1..MaxLifecycleStrategies : delete_strategy(id)

SpecLifecycle == InitConfigured /\ [][LifecycleNext]_vars

\* the registry with deletions and restarts, and the dispatcher
DeleteDispatchNext ==
    \/ initialize
    \/ restart
    \/ \E c \in DispatchChannels, a \in BOOLEAN :
          create_strategy("A", c, a, 0, MaxDispatchStrategies)
    \/ \E id \in TargetIds(MaxDispatchStrategies) : delete_strategy(id)
    \/ \E m \in Messages(DispatchChannels) : handle_incoming_message(m)

SpecDeleteDispatch == InitConfigured /\ [][DeleteDispatchNext]_vars

\* ------------------------------------------------ registry calls in flight
\* A call of the registry runs without interruption from one await that
\* suspends to the next: the registry lock is taken and released between two
\* awaits and is free whenever a call asks for it, so create and assign can
\* be suspended in resolve_channel, every synchronising call in the gateway
\* call it has issued, and nowhere else.
CreatesInFlight ==
    Cardinality({t \in Tasks : calls[t].stage = "resolving" /\ calls[t].op = "create"})

\* create_strategy or assign_channel reaches `await resolve_channel`
call_resolve(t, op, id, identifier, activate, maxStrategies) ==
    /\ calls[t] = Idle
    /\ op = "create" => db_strategy_seq + CreatesInFlight < maxStrategies
    /\ calls' = [calls EXCEPT ![t] = [stage |-> "resolving", op |-> op, id |-> id,
                                      identifier |-> identifier, activate |-> activate]]
    /\ UNCHANGED <<now, registryVars, lastDispatch, poolVars, lock>>

\* the position of a call after its lock block: in the gateway call when it
\* synchronises, back at its caller when it does not
AfterLock(t, op) ==
    calls' = [calls EXCEPT ![t] = IF lastOp'.synced
                                  THEN [stage |-> "syncing", op |-> op, id |-> lastOp'.id]
                                  ELSE Idle]

\* resolve_channel has answered: the call takes its timestamp, runs its lock
\* block and, when it synchronises, issues the gateway call
call_locked(t) ==
    /\ calls[t].stage = "resolving"
    /\ IF calls[t].op = "create"
       THEN create_strategy_call("A", calls[t].identifier, calls[t].activate, 0)
       ELSE assign_channel_call(calls[t].id, calls[t].identifier)
    /\ AfterLock(t, calls[t].op)
    /\ UNCHANGED <<now, lastDispatch, poolVars, lock>>

DirectOps == {"delete", "activate", "deactivate", "pause", "resume"}

\* a call that has no await before its lock block
call_direct(t, op, id) ==
    /\ calls[t] = Idle
    /\ CASE op = "delete" -> delete_strategy_call(id)
         [] op = "activate" -> activate_strategy_call(id)
         [] op = "deactivate" -> deactivate_strategy_call(id)
         [] op = "pause" -> pause_strategy_call(id)
         [] op = "resume" -> resume_strategy_call(id)
    /\ AfterLock(t, op)
    /\ UNCHANGED <<now, lastDispatch, poolVars, lock>>

\* the gateway call of a synchronising call returns
call_return(t) ==
    /\ calls[t].stage = "syncing"
    /\ calls' = [calls EXCEPT ![t] = Idle]
    /\ UNCHANGED <<now, registryVars, lastDispatch, poolVars, lock>>

\* concurrent calls that ask for a slot under the admission cap, and those
\* that free one
AdmissionNext ==
    \/ \E t \in Tasks, c \in RegistryChannels, a \in BOOLEAN :
          call_resolve(t, "create", 0, c, a, MaxRegistryStrategies)
    \/ \E t \in Tasks : call_locked(t)
    \/ \E t \in Tasks, op \in DirectOps \ {"delete"}, id \in TargetIds(MaxRegistryStrategies) :
          call_direct(t, op, id)
    \/ \E t \in Tasks : call_return(t)

SpecAdmission == InitConfigured /\ [][AdmissionNext]_vars

\* messages that carry no timestamp, one per channel
UntimedMessages ==
    {m \in Messages(DispatchChannels) :
        m.channel_id # None /\ m.telegram_id > 0 /\ m.message = "buy"
        /\ m.created_at = NoTime}

\* concurrent calls that change which channels are listened to, and the
\* dispatcher running between their steps
ConcurrentNext ==
    \/ \E t \in Tasks, c \in DispatchChannels, a \in BOOLEAN :
          call_resolve(t, "create", 0, c, a, MaxDispatchStrategies)
    \/ \E t \in Tasks, id \in TargetIds(MaxDispatchStrategies), c \in DispatchChannels :
          call_resolve(t, "assign", id, c, FALSE, MaxDispatchStrategies)
    \/ \E t \in Tasks : call_locked(t)
    \/ \E t \in Tasks, op \in {"delete", "activate", "deactivate"},
          id \in TargetIds(MaxDispatchStrategies) : call_direct(t, op, id)
    \/ \E t \in Tasks : call_return(t)
    \/ \E m \in UntimedMessages : handle_incoming_message(m)

SpecConcurrent == InitConfigured /\ [][ConcurrentNext]_vars

\* ---------------------------------------------- signals and their strategy
\* the dispatcher hands enqueue a job for a strategy of the map that is
\* active, unpaused and linked to the job's channel
enqueue_for_strategy(job) ==
    /\ \E i \in 1..Len(strategies) :
          /\ strategies[i].id = job.strategy_id
          /\ strategies[i].channel_id = job.channel_id
          /\ strategies[i].is_active /\ ~strategies[i].is_paused
    /\ enqueue(job)

\* the registry creating and deleting strategies while the pool stores the
\* signals of their jobs; the connection is opened without PRAGMA
\* foreign_keys, so DELETE FROM strategies touches no row of strategy_signals
SignalsNext ==
    \/ \E a \in BOOLEAN : create_strategy("A", "100", a, 0, MaxJobStrategy)
    \/ \E id \in 1..MaxJobStrategy : delete_strategy(id)
    \/ start
    \/ \E job \in Jobs : enqueue_for_strategy(job)
    \/ \E w \in Workers : worker_loop(w)
    \/ \E w \in Workers : worker_wake(w)
    \/ \E w \in Workers, out \in ParseResults : process_job(w, out)
    \/ \E w \in Workers : purge(w)

SpecSignals == InitConfigured /\ [][SignalsNext]_vars

RegistryNext ==
    \/ initialize
    \/ \E in \in CreateInputs(RegistryChannels), a \in BOOLEAN :
          create_strategy(in.name, in.identifier, a, 0, MaxRegistryStrategies)
    \/ \E id \in TargetIds(MaxRegistryStrategies) : activate_strategy(id)
    \/ \E id \in TargetIds(MaxRegistryStrategies) : deactivate_strategy(id)
    \/ \E id \in TargetIds(MaxRegistryStrategies) : pause_strategy(id)
    \/ \E id \in TargetIds(MaxRegistryStrategies) : resume_strategy(id)
    \/ \E id \in TargetIds(MaxRegistryStrategies) : delete_strategy(id)

Spec == InitConfigured /\ [][RegistryNext]_vars

\* ----------------------------------------------------- registry properties
\* the strategies of the registry that take a slot under the admission cap
ActiveUnpaused ==
    {i \in 1..Len(strategies) : strategies[i].is_active /\ ~strategies[i].is_paused}

ActiveUnpausedRows ==
    {id \in DOMAIN db_strategies :
        db_strategies[id].is_active /\ ~db_strategies[id].is_paused}

\* C1: in every state reachable by create, activate, deactivate, pause,
\* resume and delete calls on an initialized registry, at most
\* MAX_ACTIVE_STRATEGIES strategies are active and unpaused.
C1_AdmissionCap ==
    /\ Cardinality(ActiveUnpaused) <= MAX_ACTIVE_STRATEGIES
    /\ Cardinality(ActiveUnpausedRows) <= MAX_ACTIVE_STRATEGIES

\* a create call with activate = true that passes validation and resolution
CreateActive ==
    \E in \in CreateInputs(RegistryChannels) :
        /\ Strip(in.name) # "" /\ Strip(in.identifier) # ""
        /\ resolve_channel(Strip(in.identifier)) # None
        /\ create_strategy(in.name, in.identifier, TRUE, 0, MaxRegistryStrategies)

\* an activate call on a strategy that is not active
ActivateInactive ==
    \E id \in TargetIds(MaxRegistryStrategies) :
        /\ id \in CacheIds(strategies)
        /\ ~CacheGet(strategies, id).is_active
        /\ activate_strategy(id)

UpsertStep(w) == wstate[w] = "parsing" /\ wstate'[w] = "recorded"

\* a step in which worker w runs the purge that follows its record_signal
PurgeStep(w) == wstate[w] = "recorded" /\ wstate'[w] # "recorded"

NoDuplicateKeys ==
    \A r1, r2 \in signals :
        (r1.strategy_id = r2.strategy_id
            /\ r1.telegram_message_id = r2.telegram_message_id) => r1 = r2

DistinctKeys ==
    \A i, j \in 1..Len(accepted) :
        (accepted[i].strategy_id = accepted[j].strategy_id
            /\ accepted[i].telegram_message_id = accepted[j].telegram_message_id)
        => i = j

\* every accepted job has been processed and no worker is inside a job
Drained ==
    /\ upserts = Len(accepted)
    /\ \A w \in Workers : wstate[w] \notin {"parsing", "recorded"}

AllFailed == \A r \in signals : r.status = "failed"

\* the upsert of a job whose parse raised stores the failed fallback row
FailureStored(w) ==
    \E r \in signals' :
        /\ r.strategy_id = wjob[w].strategy_id
        /\ r.telegram_message_id = wjob[w].telegram_message_id
        /\ r.status = "failed"
        /\ r.error # None
        /\ r.parsed_payload.symbol = "NA"
        /\ r.parsed_payload.action = "NONE"
        /\ r.parsed_payload.entry = "NA"
        /\ r.parsed_payload.take_profit = <<>>
        /\ r.parsed_payload.stop_loss = "NA"
        /\ r.parsed_payload.notes = "Parser failed"

C5_NoJobDroppedOnShutdown ==
    [][(stopper = "gathering" /\ stopper' = "idle")
        => (upserts' = Len(accepted') /\ \A i \in 1..Len(queue') : ~IsJob(queue'[i]))]_vars

\* C10 as stated, with cutoff = now - retention window: the purge deletes
\* the rows processed before the cutoff and no other row.
C10_PurgeAtExactCutoff ==
    [][\A w \in Workers : PurgeStep(w) =>
            signals' = {r \in signals :
                ~(r.processed_at.t < now - retention_hours * TicksPerHour)}]_vars

\* C10: the purge step of a job deletes every stored signal, of any
\* strategy, whose processed_at is earlier than the cutoff, and no signal
\* whose processed_at is at or after it, the cutoff being now minus the
\* retention window with its sub-second part dropped.
C10_PurgeAtTruncatedCutoff ==
    [][\A w \in Workers : PurgeStep(w) =>
            signals' = {r \in signals :
                ~(r.processed_at.t < Truncate(now - retention_hours * TicksPerHour))}]_vars

\* a purge has deleted a row of one strategy and kept a row of another
C10_Witness ==
    /\ purged_total >= 1
    /\ signal_seq = 2
    /\ Cardinality(signals) = 1
    /\ \A w \in Workers : wstate[w] # "recorded"
    /\ \E r \in signals : r.processed_at.t = Truncate(now - retention_hours * TicksPerHour)

\* the pool is started and stop() has not been called
Running == workers # {} /\ ~stop_called

JobsFor(enqueued, id) ==
    {k \in 1..Len(enqueued) : enqueued[k].strategy_id = id}

\* the later of channel_linked_at and created_at of a strategy, in ticks
LinkThreshold(s) ==
    IF s.channel_linked_at # NoTime /\ s.channel_linked_at.t > s.created_at.t
    THEN s.channel_linked_at.t ELSE s.created_at.t

\* the message passes the filters that do not depend on the strategy
Deliverable(m) ==
    /\ m.channel_id # None
    /\ m.telegram_id > 0
    /\ m.message # None /\ Strip(m.message) # ""
    /\ ~(MessageTime(m).t < initialized_at.t)
    /\ ~shutdown

\* C7: a dispatch enqueues no job for a strategy whose channel_linked_at is
\* later than the message timestamp, and enqueues a job for an active,
\* unpaused strategy of the message's channel when the message has text and
\* its timestamp is after the strategy's channel_linked_at.
C7_LinkedAtFilter ==
    [][\A m \in Messages(MessageChannels) : handle_incoming_message(m) =>
          \A i \in 1..Len(strategies) :
              LET s == strategies[i]
              IN /\ (s.channel_linked_at # NoTime
                        /\ MessageTime(m).t < s.channel_linked_at.t)
                    => JobsFor(lastDispatch'.enqueued, s.id) = {}
                 /\ (Deliverable(m)
                        /\ s.channel_id = m.channel_id
                        /\ s.is_active /\ ~s.is_paused
                        /\ s.channel_linked_at # NoTime
                        /\ MessageTime(m).t > s.channel_linked_at.t
                        /\ ~(MessageTime(m).t < LinkThreshold(s)))
                    => JobsFor(lastDispatch'.enqueued, s.id) # {}]_vars

Eligible(s, m) ==
    /\ m.channel_id \in DOMAIN channel_index
    /\ \E k \in 1..Len(channel_index[m.channel_id]) :
          channel_index[m.channel_id][k] = s.id
    /\ s.is_active /\ ~s.is_paused
    /\ ~(MessageTime(m).t < LinkThreshold(s))

\* C9: a dispatch enqueues exactly one job for each strategy indexed under
\* the message's channel that is active, unpaused and linked no later than
\* the message timestamp, and none for any other strategy; it enqueues
\* nothing when the text is absent, empty or whitespace-only, or when the
\* message timestamp precedes initialized_at.
C9_OneJobPerEligibleStrategy ==
    [][\A m \in Messages(MessageChannels) : handle_incoming_message(m) =>
          /\ \A i \in 1..Len(strategies) :
                Cardinality(JobsFor(lastDispatch'.enqueued, strategies[i].id))
                    = IF Deliverable(m) /\ Eligible(strategies[i], m) THEN 1 ELSE 0
          /\ \A k \in 1..Len(lastDispatch'.enqueued) :
                lastDispatch'.enqueued[k].strategy_id \in CacheIds(strategies)]_vars

\* ------------------------------------------------- pause and resume
\* a resume call on a strategy that is active and paused
ResumePaused(id) ==
    /\ id \in CacheIds(strategies)
    /\ CacheGet(strategies, id).is_active
    /\ CacheGet(strategies, id).is_paused
    /\ resume_strategy(id)

\* C11: a resume of an active, paused strategy fails with AdmissionExceeded
\* and leaves is_paused = true in cache and store while
\* MAX_ACTIVE_STRATEGIES strategies are active and unpaused; with fewer
\* it succeeds and sets is_paused = false in both.
C11_ResumeRechecksCap ==
    [][\A id \in TargetIds(MaxRegistryStrategies) : ResumePaused(id) =>
          IF Cardinality(ActiveUnpaused) >= MAX_ACTIVE_STRATEGIES
          THEN /\ lastOp'.result = "AdmissionExceeded"
               /\ CacheGet(strategies', id).is_paused
               /\ db_strategies'[id].is_paused
               /\ UNCHANGED <<strategies, db_strategies>>
          ELSE /\ lastOp'.result = "ok"
               /\ ~CacheGet(strategies', id).is_paused
               /\ ~db_strategies'[id].is_paused
               /\ CacheGet(strategies', id).is_active]_vars

\* a resume was rejected at the cap and the strategy is still paused
C11_Witness ==
    /\ lastOp.name = "resume"
    /\ lastOp.result = "AdmissionExceeded"
    /\ Cardinality(ActiveUnpaused) = MAX_ACTIVE_STRATEGIES
    /\ lastOp.id \in CacheIds(strategies)
    /\ CacheGet(strategies, lastOp.id).is_active
    /\ CacheGet(strategies, lastOp.id).is_paused
    /\ db_strategies[lastOp.id].is_paused

\* the active-and-unpaused count of the cache after the step
ActiveUnpausedAfter ==
    {i \in 1..Len(strategies') : strategies'[i].is_active /\ ~strategies'[i].is_paused}

\* C12: pause never fails with AdmissionExceeded and never raises the
\* active-and-unpaused count; pausing an active, unpaused strategy lowers it
\* by exactly one, and an activate of an inactive strategy succeeds whenever
\* the count is below the cap, as it is after such a pause at the cap.
C12_PauseFreesCapacity ==
    [][/\ \A id \in TargetIds(MaxRegistryStrategies) : pause_strategy(id) =>
            /\ lastOp'.result # "AdmissionExceeded"
            /\ Cardinality(ActiveUnpausedAfter) <= Cardinality(ActiveUnpaused)
            /\ (id \in CacheIds(strategies)
                    /\ CacheGet(strategies, id).is_active
                    /\ ~CacheGet(strategies, id).is_paused)
               => /\ lastOp'.result = "ok"
                  /\ Cardinality(ActiveUnpausedAfter) = Cardinality(ActiveUnpaused) - 1
       /\ (ActivateInactive /\ Cardinality(ActiveUnpaused) < MAX_ACTIVE_STRATEGIES)
            => /\ lastOp'.result = "ok"
               /\ Cardinality(ActiveUnpausedAfter) = Cardinality(ActiveUnpaused) + 1]_vars

\* after a pause at the cap another strategy was activated
C12_Witness ==
    /\ lastOp.name = "activate"
    /\ lastOp.result = "ok"
    /\ Cardinality(ActiveUnpaused) = MAX_ACTIVE_STRATEGIES
    /\ Len(strategies) = MaxRegistryStrategies
    /\ \E i \in 1..Len(strategies) :
          strategies[i].is_active /\ strategies[i].is_paused

\* ---------------------------------------------------------------- C13
ChannelBefore(a, b) ==
    \E i, j \in 1..Len(ChannelIds) : i < j /\ ChannelIds[i] = a /\ ChannelIds[j] = b

ListenedChannels ==
    {strategies[k].channel_id : k \in {i \in 1..Len(strategies) :
        strategies[i].is_active /\ strategies[i].channel_id # None}}

SynchroniserRan == lastOp.synced /\ lastOp.result # "GatewayError"

\* C13: after every run of the channel synchroniser the gateway holds the
\* instruction set_channels with the sorted, duplicate-free channel ids of
\* the is_active strategies (paused ones included), reset_history and
\* ingest_history both false; when there is no such channel the instruction
\* is stop_capture and not set_channels.
C13_SynchroniserInstruction ==
    SynchroniserRan =>
        IF ListenedChannels = {}
        THEN gateway.op = "stop_capture"
        ELSE /\ gateway.op = "set_channels"
             /\ {gateway.ids[i] : i \in 1..Len(gateway.ids)} = ListenedChannels
             /\ \A i, j \in 1..Len(gateway.ids) :
                    i < j => ChannelBefore(gateway.ids[i], gateway.ids[j])
             /\ gateway.reset_history = FALSE
             /\ gateway.ingest_history = FALSE

C13_Witness ==
    /\ SynchroniserRan
    /\ gateway.op = "set_channels"
    /\ Len(gateway.ids) = 2
    /\ \E i \in 1..Len(strategies) :
          /\ strategies[i].is_active /\ strategies[i].is_paused
          /\ \A k \in 1..Len(strategies) :
                k # i => strategies[k].channel_id # strategies[i].channel_id

\* ---------------------------------------------------------------- C14
ValidationFailures == {"ValidationError", "NotFound", "AdmissionExceeded"}

\* the cache after the lazy back-fill of the looked-up strategy from the store
BackFilled(id) ==
    store_strategy_locked(strategies, row_to_strategy(id, db_strategies[id]))

SynchronisedOperations == {"create", "assign", "delete", "activate", "deactivate"}

\* C15: whenever create, assign_channel, delete, activate or deactivate
\* reports an error to its caller, whatever the step that raised it, the call
\* has changed neither the strategy map nor the durable store.
C15_ErrorChangesNothing ==
    [][(/\ lastOp'.name \in SynchronisedOperations
        /\ lastOp'.result \notin {"ok", "noop"})
          => UNCHANGED <<strategies, db_strategies>>]_vars

\* ---------------------------------------------------------------- C16
\* an enqueue call that discards its job: nothing is queued and nothing is
\* left for a worker to process or store
Discards(job) == enqueue(job) => UNCHANGED <<queue, accepted, signals, wjob>>

\* C16 as stated: after any stop() call, and until a later start() call,
\* enqueue(job) leaves the queue unchanged and the job is not kept.
C16_EnqueueAfterAnyStop ==
    [][stop_since_start # "none" => \A job \in Jobs : Discards(job)]_vars

\* C16: after a stop() call made on a running pool, and until a later
\* start() call, enqueue(job) leaves the queue unchanged and the job is not
\* kept: it is neither queued nor handed to a worker nor stored.
C16_EnqueueAfterStop ==
    [][stop_since_start = "stopped" =>
          \A job \in Jobs : Discards(job) /\ (enqueue(job) => dropped' = dropped + 1)]_vars

\* a job was discarded after stop() on a running pool, before any start()
C16_Witness ==
    /\ stop_since_start = "stopped"
    /\ dropped > 0
    /\ queue = <<>>

\* ---------------------------------------------------------------- C17
SentinelCount(q) == Cardinality({i \in 1..Len(q) : q[i] = Sentinel})

\* C17: stop() on a running pool appends one shutdown sentinel per worker to
\* the queue and, every parser, store and sink call returning, eventually
\* returns; when it returns every worker has exited. stop() on a pool that
\* is not running returns at once and puts no sentinel on the queue.
C17_StopTerminates ==
    /\ [][/\ (stop_begin /\ workers # {}) =>
                /\ Len(queue') = Len(queue) + max_workers
                /\ SentinelCount(queue') = SentinelCount(queue) + max_workers
                /\ Cardinality(workers) = max_workers
                /\ stopper' = "gathering"
          /\ (stop_begin /\ workers = {}) =>
                /\ queue' = queue
                /\ stopper' = "idle"
                /\ UNCHANGED <<shutdown, workers, wstate>>
          /\ (stopper = "gathering" /\ stopper' = "idle") =>
                /\ \A w \in Workers : wstate[w] = "exited"
                /\ workers' = {}]_vars
    /\ (stopper = "gathering" ~> stopper = "idle")

\* stop() has returned on a pool that had processed a job and was stopped
\* with another job still queued
C17_Witness ==
    /\ stop_since_start = "stopped"
    /\ stopper = "idle"
    /\ workers = {}
    /\ upserts > 0
    /\ \E i \in 1..Len(queue) : IsJob(queue[i])

\* ---------------------------------------------------------------- C18
LiveWorkers == {w \in Workers : wstate[w] \notin {"absent", "exited"}}

\* C18: start() on a pool whose worker list is not empty spawns no worker and
\* leaves the workers as they are; start() on a pool without workers spawns
\* exactly max_workers of them; every live worker task is in the list start()
\* looks at, so the number of live workers never exceeds max_workers.
C18_StartIdempotent ==
    /\ [][/\ (start /\ workers # {}) =>
                UNCHANGED <<workers, wstate, wjob, starts, queue, shutdown>>
          /\ (start /\ workers = {}) =>
                /\ LiveWorkers = {}
                /\ workers' = Workers
                /\ Cardinality(workers') = max_workers
                /\ \A w \in Workers : wstate'[w] = "ready"
                /\ starts' = starts + 1]_vars
    /\ [](LiveWorkers \subseteq workers /\ Cardinality(LiveWorkers) <= max_workers)

\* start() was called while the workers of the first start() were live and
\* a stop() was waiting for them
C18_Witness ==
    /\ starts = 1
    /\ stopper = "gathering"
    /\ stop_since_start = "none"
    /\ workers = Workers
    /\ LiveWorkers # {}

\* ---------------------------------------------------------------- C19
\* a step in which a call of the given kinds raised; the last entry of
\* faults' describes it
FaultStep(kinds) ==
    /\ Len(faults') = Len(faults) + 1
    /\ faults'[Len(faults')].kind \in kinds

\* after the failure the worker is at the head of its loop as after any job:
\* it leaves only on the shutdown flag or a sentinel, takes the job at the
\* head of the queue if there is one, and waits otherwise; nothing is added
\* to the queue
WorkerCarriesOn(w) ==
    /\ queue' = queue \/ (queue # <<>> /\ queue' = Tail(queue))
    /\ accepted' = accepted
    /\ wstate'[w] \in {"exited", "parsing", "waiting"}
    /\ wstate'[w] = "exited" <=> (shutdown \/ (queue # <<>> /\ Head(queue) = Sentinel))
    /\ wstate'[w] = "parsing" =>
            queue # <<>> /\ wjob'[w] = Head(queue) /\ queue' = Tail(queue)
    /\ wstate'[w] = "waiting" => queue = <<>> /\ queue' = queue
    /\ \A v \in Workers \ {w} : wstate'[v] = wstate[v] /\ wjob'[v] = wjob[v]

\* the jobs a worker has finished with: upserted, or given up on a failed upsert
Handled == upserts + Cardinality({i \in 1..Len(faults) : faults[i].kind = "upsert"})

\* C19: when the store raises in the upsert or in the purge of a job, the job
\* is not put back on the queue, the worker that ran it stays alive (it goes
\* back to the head of its loop), the store keeps what was committed (nothing
\* of a failed upsert, the row of the job when the purge failed), and while
\* the pool runs every accepted job, the ones behind the failed one
\* included, is eventually taken by a worker and handled.
C19_StoreFailureDropsJobOnly ==
    /\ [][FaultStep({"upsert", "purge"}) =>
            LET f == faults'[Len(faults')]
            IN /\ f.job = wjob[f.worker]
               /\ IsJob(f.job)
               /\ WorkerCarriesOn(f.worker)
               /\ signals' = signals
               /\ f.kind = "purge" => \E r \in signals' : SameKey(r, f.job)]_vars
    /\ \A k \in 1..MaxJobs :
          [](Running /\ Len(accepted) >= k => <>(stop_called \/ Handled >= k))

\* the upsert of the first accepted job failed and the job behind it, of
\* another key, was stored by the running pool, whose workers all wait
C19_Witness ==
    /\ Running
    /\ Len(faults) = 1 /\ faults[1].kind = "upsert"
    /\ Len(accepted) = 2
    /\ faults[1].job = accepted[1]
    /\ ~SameKey(accepted[1], accepted[2])
    /\ \E r \in signals : SameKey(r, accepted[2])
    /\ ~\E r \in signals : SameKey(r, accepted[1])
    /\ queue = <<>>
    /\ \A w \in Workers : wstate[w] = "waiting"

\* ---------------------------------------------------------------- C20
SinkRaised == \E i \in 1..Len(faults) : faults[i].kind = "sink"

\* C20: when the callback raises while it is notified of the signal of a
\* job, the signal stays stored, the worker does not terminate (it goes back
\* to the head of its loop), and while the pool runs every accepted job, the
\* next queued one included, is eventually upserted.
C20_SinkFailureSwallowed ==
    /\ [][FaultStep({"sink"}) =>
            LET f == faults'[Len(faults')]
            IN /\ f.job = wjob[f.worker]
               /\ IsJob(f.job)
               /\ wstate[f.worker] = "notifying"
               /\ WorkerCarriesOn(f.worker)
               /\ signals' = signals
               /\ \E r \in signals' : SameKey(r, f.job)]_vars
    /\ \A k \in 1..MaxJobs :
          [](Running /\ SinkRaised /\ Len(accepted) >= k
                => <>(stop_called \/ upserts >= k))

\* the callback raised on the signal of the first accepted job; that signal
\* and the one of the job behind it, of another key, are stored and the
\* workers of the running pool all wait
C20_Witness ==
    /\ Running
    /\ Len(faults) = 1 /\ faults[1].kind = "sink"
    /\ Len(accepted) = 2
    /\ faults[1].job = accepted[1]
    /\ ~SameKey(accepted[1], accepted[2])
    /\ \A i \in 1..2 : \E r \in signals : SameKey(r, accepted[i])
    /\ upserts = 2
    /\ queue = <<>>
    /\ \A w \in Workers : wstate[w] = "waiting"

\* ---------------------------------------------------------------- C21
\* HungWorker is suspended in the await of a parser call
AwaitsParser(w) == wstate[w] = "parsing" /\ ~RaisesAtOnce(wjob[w])

HeldByHungCall == IF AwaitsParser(HungWorker) THEN 1 ELSE 0

\* C21: with two workers and a parser call of one worker that may never
\* return, the other worker keeps taking items: while the pool runs, every
\* accepted job other than the one held in that call is eventually upserted.
C21_HungCallStallsOneWorker ==
    \A k \in 1..MaxJobs :
        [](Running /\ Len(accepted) >= k
              => <>(stop_called \/ upserts + HeldByHungCall >= k))

\* HungWorker still awaits the parse of the first accepted job while the job
\* behind it, of another key, has been stored by the other worker
C21_Witness ==
    /\ Running
    /\ AwaitsParser(HungWorker)
    /\ Len(accepted) = 2
    /\ wjob[HungWorker] = accepted[1]
    /\ ~SameKey(accepted[1], accepted[2])
    /\ upserts = 1
    /\ \E r \in signals : SameKey(r, accepted[2])
    /\ queue = <<>>
    /\ \A w \in Workers \ {HungWorker} : wstate[w] = "waiting"

\* ---------------------------------------------------------------- C22
\* ids the store has handed out and no longer holds
Deleted(id) == id \in 1..db_strategy_seq /\ id \notin DOMAIN db_strategies

Indexed(index) == UNION {{index[c][k] : k \in 1..Len(index[c])} : c \in DOMAIN index}

\* C22: delete(id) of a strategy that is in the cache or the store removes
\* it from the store, the strategy map and the channel index and then runs
\* the channel synchroniser on what is left; delete of an id that is in
\* neither fails with NotFound and changes nothing; and no dispatch enqueues
\* a job for an id that has been deleted.
C22_DeleteRemovesEverywhere ==
    /\ [][\A id \in TargetIds(MaxDispatchStrategies) : delete_strategy(id) =>
            IF id \in CacheIds(strategies) \/ id \in DOMAIN db_strategies
            THEN /\ id \notin DOMAIN db_strategies'
                 /\ id \notin CacheIds(strategies')
                 /\ id \notin Indexed(channel_index')
                 /\ \A i \in DOMAIN db_strategies \ {id} :
                        i \in DOMAIN db_strategies' /\ db_strategies'[i] = db_strategies[i]
                 /\ lastOp'.result = "ok" /\ lastOp'.synced
                 /\ gateway' = synchronise_channels(strategies')
            ELSE /\ lastOp'.result = "NotFound"
                 /\ UNCHANGED <<db_strategies, strategies, channel_index, gateway>>]_vars
    /\ [][(lastDispatch' # lastDispatch \/ queue' # queue) =>
            \A k \in 1..Len(lastDispatch'.enqueued) :
                /\ ~Deleted(lastDispatch'.enqueued[k].strategy_id)
                /\ lastDispatch'.enqueued[k].strategy_id \in CacheIds(strategies)]_vars
    /\ [](\A c \in DispatchChannels : \A k \in 1..Len(Snapshot(c)) :
              ~Deleted(Snapshot(c)[k].id))
    /\ [](\A id \in CacheIds(strategies) \cup Indexed(channel_index) : ~Deleted(id))

\* strategy lastOp.id has been deleted, another strategy is still a dispatch
\* candidate of a channel, and a message of that channel has been dispatched
C22_Witness ==
    /\ lastOp.name = "delete" /\ lastOp.result = "ok"
    /\ Deleted(lastOp.id)
    /\ lastDispatch.message.channel_id \in DispatchChannels
    /\ lastDispatch.message.message = "buy"
    /\ Len(Snapshot(lastDispatch.message.channel_id)) = 1
    /\ gateway.op = "set_channels"

\* ---------------------------------------------------------------- C23
\* C23: an upsert that hits an existing (strategy_id, telegram_message_id)
\* row leaves that row with the id, channel_id and received_at of its first
\* write and gives it the raw_message, parsed_payload, status, error and
\* processed_at of the new write; it adds no row and leaves every other row
\* as it was.
C23_UpsertKeepsFirstWrite ==
    [][\A w \in Workers :
          (/\ wstate[w] = "parsing"
           /\ upserts' = upserts + 1
           /\ wresult'[w] # NoResult
           /\ \E r \in signals : SameKey(r, wjob[w])) =>
             LET r == CHOOSE r \in signals : SameKey(r, wjob[w])
             IN /\ signals' = (signals \ {r}) \cup
                     {[id |-> r.id,
                       strategy_id |-> r.strategy_id,
                       channel_id |-> r.channel_id,
                       telegram_message_id |-> r.telegram_message_id,
                       received_at |-> r.received_at,
                       raw_message |-> wjob[w].raw_message,
                       parsed_payload |-> wresult'[w].payload,
                       status |-> wresult'[w].status,
                       error |-> wresult'[w].error,
                       processed_at |-> naive_iso(wprocessed_at[w].t)]}
                /\ signal_seq' = signal_seq]_vars

\* two jobs of one key that differ in channel and received_at were upserted
\* at different times with different outcomes: the one row has the channel
\* and received_at of the first and the status and processed_at of the second
C23_Witness ==
    /\ Len(accepted) = 2
    /\ SameKey(accepted[1], accepted[2])
    /\ accepted[1].channel_id # accepted[2].channel_id
    /\ accepted[1].received_at # accepted[2].received_at
    /\ upserts = 2
    /\ Cardinality(signals) = 1
    /\ \E w \in Workers :
          /\ wstate[w] = "recorded"
          /\ wjob[w] = accepted[2]
          /\ wprocessed_at[w].t > 0
          /\ wresult[w].status = "failed"
          /\ \E r \in signals :
                /\ r.channel_id = accepted[1].channel_id
                /\ r.received_at = iso_seconds(accepted[1].received_at)
                /\ r.status = "failed"
                /\ r.processed_at = naive_iso(wprocessed_at[w].t)
                /\ r.id = 1

\* ---------------------------------------------------------------- C24
\* a step that ends a call of the named operation on a stored strategy
\* whose flags were as given when the call was made
CallOn(name, active, paused) ==
    /\ UNCHANGED <<gateway_up, lastDispatch, poolVars>>
    /\ lastOp'.name = name
    /\ lastOp'.id \in DOMAIN db_strategies
    /\ db_strategies[lastOp'.id].is_active = active
    /\ db_strategies[lastOp'.id].is_paused = paused

\* the map and the index are as they were, or the looked-up strategy, absent
\* from the map, has been loaded into it from the store unmodified
CacheKeptOrBackFilled ==
    \/ UNCHANGED <<strategies, channel_index>>
    \/ /\ lastOp'.id \notin CacheIds(strategies)
       /\ strategies' = BackFilled(lastOp'.id)
       /\ channel_index' = rebuild_channel_index_locked(strategies')

\* C24 as stated: resume of an inactive strategy, paused or not, fails with
\* ValidationError and changes neither the strategy map nor the durable
\* store; resume of an active, unpaused strategy returns it unchanged and
\* writes nothing to the store.
C24_ResumeInactiveChangesNothing ==
    [][/\ \A paused \in BOOLEAN :
            CallOn("resume", FALSE, paused) =>
               /\ lastOp'.result = "ValidationError"
               /\ UNCHANGED <<strategies, channel_index, db_strategies, db_strategy_seq,
                              gateway>>
       /\ CallOn("resume", TRUE, FALSE) =>
               /\ lastOp'.result = "noop"
               /\ UNCHANGED <<db_strategies, db_strategy_seq, gateway>>
               /\ CacheGet(strategies', lastOp'.id) =
                      row_to_strategy(lastOp'.id, db_strategies[lastOp'.id])]_vars

\* C24: resume of an inactive strategy, paused or not, fails with
\* ValidationError and leaves the durable store and the gateway as they were;
\* the strategy map is as it was too, except that a strategy that was absent
\* from the map has been loaded into it from the store, unmodified. Resume
\* of an active, unpaused strategy returns it unchanged, writes nothing to
\* the store and changes the map by nothing but that same load.
C24_ResumeInactiveKeepsStore ==
    [][/\ \A paused \in BOOLEAN :
            CallOn("resume", FALSE, paused) =>
               /\ lastOp'.result = "ValidationError"
               /\ UNCHANGED <<db_strategies, db_strategy_seq, gateway>>
               /\ CacheKeptOrBackFilled
       /\ CallOn("resume", TRUE, FALSE) =>
               /\ lastOp'.result = "noop"
               /\ UNCHANGED <<db_strategies, db_strategy_seq, gateway>>
               /\ CacheKeptOrBackFilled
               /\ CacheGet(strategies', lastOp'.id) =
                      row_to_strategy(lastOp'.id, db_strategies[lastOp'.id])]_vars

\* a resume refused for a strategy that is inactive and still paused from the
\* time it was active, while another strategy of the store is active
C24_Witness ==
    /\ lastOp.name = "resume"
    /\ lastOp.result = "ValidationError"
    /\ lastOp.id \in DOMAIN db_strategies
    /\ lastOp.id \in CacheIds(strategies)
    /\ ~db_strategies[lastOp.id].is_active
    /\ db_strategies[lastOp.id].is_paused
    /\ \E id \in DOMAIN db_strategies : db_strategies[id].is_active

\* ---------------------------------------------------------------- C25
\* a step that ends a call of the named operation with a value returned
Returned(name) ==
    /\ UNCHANGED <<gateway_up, lastDispatch, poolVars>>
    /\ lastOp'.name = name
    /\ lastOp'.result \in {"ok", "noop"}

\* the strategy is active and not paused, in the store and in the map
LeftActiveUnpaused(id) ==
    /\ id \in DOMAIN db_strategies'
    /\ db_strategies'[id].is_active /\ ~db_strategies'[id].is_paused
    /\ id \in CacheIds(strategies')
    /\ CacheGet(strategies', id).is_active /\ ~CacheGet(strategies', id).is_paused

\* C25 as stated: every activate that returns successfully leaves the
\* strategy active and not paused; on a strategy that is already active and
\* unpaused the call writes nothing to the store, changes nothing in the
\* strategy map and runs no synchronisation.
C25_ActivateChangesNothingWhenActive ==
    [][/\ Returned("activate") => LeftActiveUnpaused(lastOp'.id)
       /\ CallOn("activate", TRUE, FALSE) =>
               /\ lastOp'.result = "noop"
               /\ ~lastOp'.synced
               /\ UNCHANGED <<db_strategies, db_strategy_seq, gateway>>
               /\ UNCHANGED <<strategies, channel_index>>]_vars

\* C25: every activate that returns successfully leaves the strategy active
\* and not paused; on a strategy that is already active and unpaused the call
\* writes nothing to the store, runs no synchronisation, and changes the
\* strategy map by nothing but the load of that strategy from the store when
\* it was absent from the map.
C25_ActivateSetsFlags ==
    [][/\ Returned("activate") => LeftActiveUnpaused(lastOp'.id)
       /\ CallOn("activate", TRUE, FALSE) =>
               /\ lastOp'.result = "noop"
               /\ ~lastOp'.synced
               /\ UNCHANGED <<db_strategies, db_strategy_seq, gateway>>
               /\ CacheKeptOrBackFilled]_vars

\* an activate has returned for a strategy that is now active and unpaused
\* and listened to, next to a strategy that is active and paused
C25_Witness ==
    /\ lastOp.name = "activate"
    /\ lastOp.result = "ok"
    /\ lastOp.synced
    /\ lastOp.id \in DOMAIN db_strategies
    /\ db_strategies[lastOp.id].is_active
    /\ ~db_strategies[lastOp.id].is_paused
    /\ gateway.op = "set_channels"
    /\ \E id \in DOMAIN db_strategies \ {lastOp.id} :
          db_strategies[id].is_active /\ db_strategies[id].is_paused

\* ---------------------------------------------------------------- C26
\* C26: deactivate of a strategy that is not active writes nothing to the
\* store and runs no synchronisation; deactivate of an active strategy sets
\* is_active to false, leaves is_paused and every other strategy as they
\* were, in the store and in the strategy map, and runs the synchronisation;
\* a strategy that is inactive and paused stays paused for as long as it
\* exists, until an activate of it.
C26_DeactivateKeepsPause ==
    [][/\ \A paused \in BOOLEAN :
            CallOn("deactivate", FALSE, paused) =>
               /\ lastOp'.result = "noop"
               /\ ~lastOp'.synced
               /\ UNCHANGED <<db_strategies, db_strategy_seq, gateway>>
       /\ \A paused \in BOOLEAN :
            CallOn("deactivate", TRUE, paused) =>
               LET id == lastOp'.id
               IN /\ db_strategies' = [db_strategies EXCEPT ![id].is_active = FALSE]
                  /\ db_strategies'[id].is_paused = paused
                  /\ CacheIds(strategies') = CacheIds(strategies) \cup {id}
                  /\ CacheGet(strategies', id) = row_to_strategy(id, db_strategies'[id])
                  /\ \A j \in CacheIds(strategies) \ {id} :
                        CacheGet(strategies', j) = CacheGet(strategies, j)
                  /\ lastOp'.synced
                  /\ gateway_up => gateway' = synchronise_channels(strategies')
       /\ \A id \in DOMAIN db_strategies \cap DOMAIN db_strategies' :
            (~db_strategies[id].is_active /\ db_strategies[id].is_paused) =>
               \/ db_strategies'[id].is_paused /\ ~db_strategies'[id].is_active
               \/ /\ lastOp'.name = "activate"
                  /\ lastOp'.id = id
                  /\ lastOp'.result \in {"ok", "GatewayError"}]_vars

\* a deactivate has left a paused strategy inactive and still paused, and the
\* gateway listens to the channel of the one strategy that is still active
C26_Witness ==
    /\ lastOp.name = "deactivate"
    /\ lastOp.result = "ok"
    /\ lastOp.synced
    /\ lastOp.id \in DOMAIN db_strategies
    /\ ~db_strategies[lastOp.id].is_active
    /\ db_strategies[lastOp.id].is_paused
    /\ \E id \in DOMAIN db_strategies \ {lastOp.id} :
          /\ db_strategies[id].is_active
          /\ gateway = synchronise_channels(strategies)
          /\ gateway.op = "set_channels"

\* ---------------------------------------------------------------- C27
\* a step in which a call runs its lock block (and not one in which a call
\* is suspended in, or comes back from, the gateway)
LockStep ==
    /\ UNCHANGED <<lastDispatch, poolVars>>
    /\ \/ calls' = calls
       \/ \E t \in Tasks : /\ calls'[t] # calls[t]
                            /\ calls[t].stage # "syncing"
                            /\ calls'[t].stage # "resolving"

\* the lock block is that of a call that asks for a slot under the cap:
\* create with activate, activate of an inactive strategy, resume of an
\* active and paused one
AdmittingCall ==
    /\ LockStep
    /\ \/ lastOp'.name = "create" /\ lastOp'.activate
       \/ /\ lastOp'.name = "activate"
          /\ lastOp'.id \in DOMAIN db_strategies
          /\ ~db_strategies[lastOp'.id].is_active
       \/ /\ lastOp'.name = "resume"
          /\ lastOp'.id \in DOMAIN db_strategies
          /\ db_strategies[lastOp'.id].is_active
          /\ db_strategies[lastOp'.id].is_paused

\* the strategy map holds every row of the store, as the store has it
CacheAgrees ==
    /\ CacheIds(strategies) = DOMAIN db_strategies
    /\ \A id \in DOMAIN db_strategies :
          CacheGet(strategies, id) = row_to_strategy(id, db_strategies[id])

\* C27: whatever the interleaving of concurrent create(activate=true),
\* activate of an inactive strategy and resume calls, each of them checks the
\* cap and writes in one step: with the cap reached it fails with
\* AdmissionExceeded and changes nothing; otherwise it succeeds, the count of
\* active and unpaused strategies rises by exactly one and no other strategy
\* changes. So of two such calls in flight with four strategies admitted,
\* the first to reach its lock block succeeds and the other fails, and the
\* map and the store hold the same strategies at all times.
C27_AdmissionAtomic ==
    /\ [][AdmittingCall =>
            IF Cardinality(ActiveUnpaused) >= MAX_ACTIVE_STRATEGIES
            THEN /\ lastOp'.result = "AdmissionExceeded"
                 /\ UNCHANGED <<strategies, channel_index, db_strategies, db_strategy_seq>>
            ELSE /\ lastOp'.result = "ok"
                 /\ LeftActiveUnpaused(lastOp'.id)
                 /\ Cardinality(ActiveUnpausedAfter) = Cardinality(ActiveUnpaused) + 1
                 /\ \A id \in DOMAIN db_strategies \ {lastOp'.id} :
                       /\ id \in DOMAIN db_strategies'
                       /\ db_strategies'[id] = db_strategies[id]]_vars
    /\ []CacheAgrees

\* four strategies were admitted and two creates were waiting for the
\* gateway's answer: the one has taken the fifth slot and is still in its
\* gateway call, the other has been refused
C27_Witness ==
    /\ Cardinality(ActiveUnpaused) = MAX_ACTIVE_STRATEGIES
    /\ Cardinality(ActiveUnpausedRows) = MAX_ACTIVE_STRATEGIES
    /\ lastOp.name = "create"
    /\ lastOp.result = "AdmissionExceeded"
    /\ db_strategy_seq = MAX_ACTIVE_STRATEGIES
    /\ \E t \in Tasks :
          /\ calls[t] = [stage |-> "syncing", op |-> "create", id |-> MAX_ACTIVE_STRATEGIES]
          /\ \A u \in Tasks \ {t} : calls[u] = Idle

\* ---------------------------------------------------------------- C28
\* no call is suspended: every call made so far has returned
AllReturned == \A t \in Tasks : calls[t] = Idle

\* the instruction for the channels of the strategies that are active now
UpToDate ==
    \/ gateway = synchronise_channels(strategies)
    \/ gateway.op = "none" /\ ActiveChannels(strategies) = {}

\* C28: whatever the interleaving of concurrent create, assign_channel,
\* delete, activate and deactivate calls, every instruction is issued to the
\* gateway in the step that commits the change and is computed from the
\* strategy map as that step leaves it, no step other than a lock block
\* issues one, and so the last instruction issued is at all times, and in
\* particular once all calls have returned, the one for the channels of the
\* strategies that are active: none computed from an older map follows one
\* computed from a newer map.
C28_LastInstructionIsNewest ==
    /\ [][(LockStep /\ lastOp'.synced) =>
             gateway' = synchronise_channels(strategies')]_vars
    /\ [][(~LockStep \/ ~lastOp'.synced) => gateway' = gateway]_vars
    /\ [](AllReturned => UpToDate)
    /\ []UpToDate

\* a create and an assign_channel overlap in their gateway calls, the
\* assign having been the later to commit: the gateway was last told to
\* listen to both channels, which are those of the two active strategies
C28_Witness ==
    /\ calls[1].stage = "syncing" /\ calls[1].op = "create"
    /\ calls[2].stage = "syncing" /\ calls[2].op = "assign"
    /\ lastOp.name = "assign"
    /\ gateway = [op |-> "set_channels", ids |-> <<"100", "200">>,
                  reset_history |-> FALSE, ingest_history |-> FALSE]
    /\ ActiveChannels(strategies) = {"100", "200"}
    /\ Len(strategies) = MaxDispatchStrategies

\* ---------------------------------------------------------------- C29
\* the strategies a dispatch for the channel takes as its candidates
Candidates(c) == {Snapshot(c)[k] : k \in 1..Len(Snapshot(c))}

\* the strategies the store has on the channel
Committed(c) ==
    {row_to_strategy(id, db_strategies[id]) :
        id \in {i \in DOMAIN db_strategies : db_strategies[i].channel_id = c}}

\* C29: whatever calls are in flight when a message is dispatched, the
\* channel index is the one built from the strategy map, the candidates read
\* for a channel are exactly the strategies the store has on that channel,
\* each with all the fields of its row (the state after the mutations that
\* have committed and before those that have not), and the outcome of the
\* dispatch is the one these strategies give: a message without a timestamp
\* raises on the first active, unpaused one and enqueues nothing.
C29_DispatchSeesCommittedState ==
    /\ [](channel_index = rebuild_channel_index_locked(strategies))
    /\ [](\A c \in DispatchChannels : Candidates(c) = Committed(c))
    /\ [][\A m \in UntimedMessages : handle_incoming_message(m) =>
            /\ lastDispatch'.enqueued = <<>>
            /\ lastDispatch'.raised =
                  (\E s \in Committed(m.channel_id) : s.is_active /\ ~s.is_paused)]_vars

\* a message of channel 200 was dispatched and raised on the strategy an
\* assign_channel has moved there, that call being still in its gateway call
\* while another assign_channel for the same strategy waits for the gateway
\* to resolve channel 100
C29_Witness ==
    /\ lastDispatch.message.channel_id = "200"
    /\ lastDispatch.raised
    /\ calls[1] = [stage |-> "syncing", op |-> "assign", id |-> 1]
    /\ calls[2].stage = "resolving"
    /\ calls[2].op = "assign"
    /\ calls[2].id = 1
    /\ calls[2].identifier = "100"
    /\ Candidates("200") = {row_to_strategy(1, db_strategies[1])}
    /\ Candidates("100") = {}

\* ---------------------------------------------------------------- C30
\* C30: the signal an upsert returns, which is the one handed to the sink, is
\* the stored row of the job's own (strategy_id, telegram_message_id) and
\* carries the status and the payload that upsert has written, on insert and
\* on update alike, whatever was inserted through the store's connection
\* before.
C30_ReturnedSignalIsOwnRow ==
    [][\A w \in Workers, out \in ParseResults :
          process_job(w, out) =>
             /\ wsignal'[w] \in signals'
             /\ SameKey(wsignal'[w], wjob[w])
             /\ wsignal'[w].status = out.status
             /\ wsignal'[w].parsed_payload = out.payload]_vars

\* ---------------------------------------------------------------- C31
\* the last stop() call on a started pool has returned
StopReturned == stop_since_start = "stopped" /\ stopper = "idle" /\ workers = {}

\* C31: once stop() has returned the queue holds no shutdown sentinel,
\* whatever the workers were doing when it was called; so in a pool that
\* has workers and is not shutting down no worker task has finished, and
\* every job accepted is eventually upserted unless stop() is called again.
C31_NoSentinelAfterStop ==
    /\ [](StopReturned => SentinelCount(queue) = 0)
    /\ []((workers # {} /\ ~shutdown) => \A w \in workers : wstate[w] # "exited")
    /\ \A k \in 1..MaxJobs :
          []((workers # {} /\ ~shutdown /\ Len(accepted) >= k)
                => <>(shutdown \/ upserts >= k))

\* ---------------------------------------------------------------- C32
\* C32: every stored signal belongs to a strategy that is in the store:
\* deleting a strategy leaves no signal of it behind, and a job of it that
\* was queued or in flight at the delete stores no signal afterwards.
C32_SignalsHaveStrategy ==
    \A r \in signals : r.strategy_id \in DOMAIN db_strategies

\* ---------------------------------------------------------------- C33
\* the worker has left the job it was processing: it exited, waits for an
\* item, or took the next item off the queue
LeftJob(w) ==
    \/ wstate'[w] \in {"exited", "waiting"}
    \/ wstate'[w] = "parsing" /\ queue' = Tail(queue) /\ wjob'[w] = Head(queue)

\* C33: a worker takes a job through parse, upsert, purge and broadcast in
\* that order: it reaches the upsert's result only from the parse, with the
\* upsert made in that step; it invokes the sink only from there, in the
\* step that runs the purge, with the signal the upsert returned, so never
\* when the upsert or the purge raised; and from the sink call it can only
\* leave the job, so the sink is invoked at most once per processing.
C33_ParseUpsertPurgeBroadcast ==
    [][\A w \in Workers :
          /\ (wstate'[w] = "recorded" /\ wstate[w] # "recorded") =>
                /\ wstate[w] = "parsing"
                /\ upserts' = upserts + 1
                /\ wjob'[w] = wjob[w]
                /\ wsignal'[w] \in signals'
          /\ (wstate'[w] = "notifying" /\ wstate[w] # "notifying") =>
                /\ wstate[w] = "recorded"
                /\ signals' = purge_signals_older_than(signals, Cutoff)
                /\ wjob'[w] = wjob[w]
                /\ wsignal'[w] = wsignal[w]
                /\ wsignal[w] # NoSignal
                /\ faults' = faults
          /\ (wstate[w] = "notifying" /\ wstate'[w] # "notifying") => LeftJob(w)
          /\ (wstate[w] = "recorded" /\ wstate'[w] \notin {"recorded", "notifying"}) =>
                /\ LeftJob(w)
                /\ Len(faults') = Len(faults) + 1
                /\ faults'[Len(faults')].kind = "purge"
          /\ (wstate[w] = "parsing" /\ wstate'[w] # "recorded"
                /\ (wjob'[w] # wjob[w] \/ wstate'[w] # "parsing")) =>
                /\ LeftJob(w)
                /\ wstate'[w] # "notifying"]_vars

\* the sink is being invoked with the signal of the second job upserted,
\* after the purge of the first job raised and its sink call was skipped
C33_Witness ==
    /\ upserts = 2
    /\ faults # <<>>
    /\ faults[1].kind = "purge"
    /\ \E w \in Workers :
          /\ wstate[w] = "notifying"
          /\ wsignal[w] \in signals
          /\ SameKey(wsignal[w], wjob[w])
          /\ wjob[w] # faults[1].job

\* ---------------------------------------------------------------- C34
\* start() of a processor constructed with max_workers = n
start_pool(n) ==
    /\ NoSyncStep
    /\ starts < MaxStarts
    /\ IF workers # {}
       THEN UNCHANGED <<shutdown, workers, wstate, starts>>
       ELSE /\ shutdown' = FALSE
            /\ workers' = 1..n
            /\ wstate' = [w \in Workers |-> IF w <= n THEN "ready" ELSE "absent"]
            /\ starts' = starts + 1
    /\ stop_since_start' = "none"
    /\ UNCHANGED <<now, registryVars, calls, lock, lastDispatch, queue, wjob, wprocessed_at, wresult, stopper,
                   retention_hours, parser_configured, signals, signal_seq,
                   accepted, upserts, purged_total, stop_called, dropped, faults,
                   last_insert_rowid, wsignal>>

\* the pool of any configured size from one worker to max_workers, with the
\* parser, the store and the purge returning
QueueNext ==
    \/ \E n \in 1..max_workers : start_pool(n)
    \/ stop_begin
    \/ stop_return
    \/ \E job \in Jobs : enqueue(job)
    \/ \E w \in Workers : worker_loop(w)
    \/ \E w \in Workers : worker_wake(w)
    \/ \E w \in Workers, out \in ParseResults : process_job(w, out)
    \/ \E w \in Workers : purge(w)

SpecQueue == Init /\ [][QueueNext]_vars

\* the jobs waiting in the queue, oldest first
QueuedJobs == SelectSeq(queue, LAMBDA x : x # Sentinel)

\* how many of the accepted jobs have been dequeued
Dequeued == Len(accepted) - Len(QueuedJobs)

\* C34: jobs are dequeued in the order enqueue accepted them: the jobs still
\* queued are the newest accepted ones in their order, and a worker that
\* takes a job takes the oldest accepted job not dequeued before; in the
\* first pool, when it has one worker, the k-th upsert is therefore that of
\* the k-th accepted job.
C34_DequeuedInAcceptedOrder ==
    /\ [](QueuedJobs = SubSeq(accepted, Dequeued + 1, Len(accepted)))
    /\ [][\A w \in Workers :
            (wstate'[w] = "parsing" /\ wstate[w] # "parsing") =>
                /\ Dequeued' = Dequeued + 1
                /\ wjob'[w] = accepted[Dequeued']]_vars
    /\ [][(starts = 1 /\ workers = {1} /\ upserts' = upserts + 1) =>
            /\ wjob[1] = accepted[upserts']
            /\ \E r \in signals' : SameKey(r, accepted[upserts'])]_vars

\* a pool of one worker has upserted the first of two different accepted
\* jobs and is parsing the second, which was queued behind it
C34_Witness ==
    /\ starts = 1
    /\ workers = {1}
    /\ Len(accepted) = 2
    /\ accepted[1].strategy_id # accepted[2].strategy_id
    /\ upserts = 1
    /\ \E r \in signals : SameKey(r, accepted[1])
    /\ wstate[1] = "parsing"
    /\ wjob[1] = accepted[2]

\* ------------------------------------------------------ the registry lock
\* The steps of a registry call around self._lock. A call runs from one await
\* that suspends it to the next without any other coroutine running, and
\* `async with self._lock` takes a free lock without suspending; a call that
\* found the lock taken would wait for it.
RunningStages == {"in_block", "released", "snapshot"}

\* no other call is between two of its suspension points
Alone(t) == \A u \in Tasks \ {t} : calls[u].stage \notin RunningStages

\* whether the lock block of the call makes a call of the store
CallsStore(op, id, activate) ==
    CASE op = "create" ->
            ~(activate /\ count_active_locked(strategies) >= MAX_ACTIVE_STRATEGIES)
      [] op = "deactivate" ->
            id \notin CacheIds(strategies) \/ CacheGet(strategies, id).is_active
      [] op = "pause" ->
            id \notin CacheIds(strategies) \/ ~CacheGet(strategies, id).is_paused
      [] OTHER -> TRUE

\* a lock block that would be entered without taking the lock
Acquire_without_lock(t, op, id, activate) ==
    /\ lock' = lock
    /\ calls' = [calls EXCEPT ![t] = [stage |-> "in_block", op |-> op, id |-> id,
                                      activate |-> activate,
                                      store |-> CallsStore(op, id, activate)]]

\* `async with self._lock`: the call enters its lock block, or waits; id is
\* the strategy addressed, and for create the identifier given
Acquire(t, op, id, activate) ==
    IF lock = 0
    THEN /\ lock' = t
         /\ calls' = [calls EXCEPT ![t] = [stage |-> "in_block", op |-> op, id |-> id,
                                           activate |-> activate,
                                           store |-> CallsStore(op, id, activate)]]
    ELSE /\ lock' = lock
         /\ calls' = [calls EXCEPT ![t] = [stage |-> "lockwait", op |-> op, id |-> id]]

LockOps == {"initialize", "delete", "deactivate", "pause"}

\* a call that has no await before its lock block reaches it
lock_enter(t, op, id) ==
    /\ Alone(t)
    /\ calls[t] = Idle
    /\ Acquire(t, op, id, FALSE)
    /\ UNCHANGED <<now, registryVars, lastDispatch, poolVars>>

\* create_strategy reaches `await resolve_channel`
lock_resolve(t, identifier, activate) ==
    /\ Alone(t)
    /\ call_resolve(t, "create", 0, identifier, activate, MaxDispatchStrategies)

\* resolve_channel has answered: create_strategy reaches its lock block
lock_enter_resolved(t) ==
    /\ Alone(t)
    /\ calls[t].stage = "resolving"
    /\ Acquire(t, "create", calls[t].identifier, calls[t].activate)
    /\ UNCHANGED <<now, registryVars, lastDispatch, poolVars>>

\* a lock block that would run the synchroniser before it releases the lock
lock_block_syncs_inside(t) ==
    /\ calls[t].stage = "in_block"
    /\ lock = t
    /\ CASE calls[t].op = "create" ->
                create_strategy_call("A", calls[t].id, calls[t].activate, 0)
         [] calls[t].op = "initialize" -> initialize_call
         [] calls[t].op = "delete" -> delete_strategy_call(calls[t].id)
         [] calls[t].op = "deactivate" -> deactivate_strategy_call(calls[t].id)
         [] calls[t].op = "pause" -> pause_strategy_call(calls[t].id)
    /\ lock' = IF lastOp'.synced THEN t ELSE 0
    /\ calls' = [calls EXCEPT ![t] = IF lastOp'.synced
                                      THEN [stage |-> "released", op |-> calls[t].op,
                                            id |-> lastOp'.id]
                                      ELSE Idle]
    /\ UNCHANGED <<now, lastDispatch, poolVars>>

\* the lock block runs to its end and the lock is released. The gateway
\* instruction of a synchronising call is written here, as in the registry
\* actions; the call issues it in sync_release, and no other coroutine runs
\* between the two steps.
lock_block_ends(t) ==
    /\ calls[t].stage = "in_block"
    /\ lock = t
    /\ CASE calls[t].op = "create" ->
                create_strategy_call("A", calls[t].id, calls[t].activate, 0)
         [] calls[t].op = "initialize" -> initialize_call
         [] calls[t].op = "delete" -> delete_strategy_call(calls[t].id)
         [] calls[t].op = "deactivate" -> deactivate_strategy_call(calls[t].id)
         [] calls[t].op = "pause" -> pause_strategy_call(calls[t].id)
    /\ lock' = 0
    /\ calls' = [calls EXCEPT ![t] = IF lastOp'.synced
                                      THEN [stage |-> "released", op |-> calls[t].op,
                                            id |-> lastOp'.id]
                                      ELSE Idle]
    /\ UNCHANGED <<now, lastDispatch, poolVars>>

\* _synchronise_channels: `async with self._lock` for the snapshot
sync_acquire(t) ==
    /\ calls[t].stage = "released"
    /\ IF lock = 0
       THEN /\ lock' = t
            /\ calls' = [calls EXCEPT ![t].stage = "snapshot"]
       ELSE /\ lock' = lock
            /\ calls' = [calls EXCEPT ![t].stage = "lockwait"]
    /\ UNCHANGED <<now, registryVars, lastDispatch, poolVars>>

\* the snapshot is taken, the lock released and the gateway call awaited
sync_release(t) ==
    /\ calls[t].stage = "snapshot"
    /\ lock = t
    /\ lock' = 0
    /\ calls' = [calls EXCEPT ![t] = [stage |-> "syncing", op |-> calls[t].op,
                                      id |-> calls[t].id]]
    /\ UNCHANGED <<now, registryVars, lastDispatch, poolVars>>

\* the gateway call returns or raises, and the registry call with it
lock_return(t) ==
    /\ Alone(t)
    /\ call_return(t)

LockNext ==
    \/ \E t \in Tasks, op \in LockOps, id \in TargetIds(MaxDispatchStrategies) :
          lock_enter(t, op, id)
    \/ \E t \in Tasks, c \in RegistryChannels, a \in BOOLEAN : lock_resolve(t, c, a)
    \/ \E t \in Tasks : lock_enter_resolved(t)
    \/ \E t \in Tasks : lock_block_ends(t)
    \/ \E t \in Tasks : sync_acquire(t)
    \/ \E t \in Tasks : sync_release(t)
    \/ \E t \in Tasks : lock_return(t)

SpecLock == InitConfigured /\ [][LockNext]_vars

\* the event loop resumes every call whose awaited gateway call has
\* returned, and runs a call up to its next await
LockFairness ==
    \A t \in Tasks :
        /\ SF_vars(lock_enter_resolved(t))
        /\ SF_vars(lock_return(t))
        /\ WF_vars(lock_block_ends(t))
        /\ WF_vars(sync_acquire(t))
        /\ WF_vars(sync_release(t))

SpecLockFair == SpecLock /\ LockFairness

\* ---------------------------------------------------------------- C35
\* C35: the synchroniser takes the registry lock only from the point after
\* the lock block of its call, with the lock free; no call ever waits for
\* the lock; whenever every call in flight is suspended (in resolve_channel
\* or in the gateway call of the synchroniser) the lock is free; and every
\* call that has begun returns.
C35_NoWaitNoGatewayUnderLock ==
    /\ [][\A t \in Tasks :
            (calls'[t].stage = "snapshot" /\ calls[t].stage # "snapshot") =>
                /\ calls[t].stage = "released"
                /\ lock = 0
                /\ lock' = t]_vars
    /\ [](\A t \in Tasks : calls[t].stage # "lockwait")
    /\ []((\A t \in Tasks : calls[t].stage \notin RunningStages) => lock = 0)
    /\ \A t \in Tasks : (calls[t] # Idle) ~> (calls[t] = Idle)

\* the synchroniser of one call holds the lock for its snapshot while
\* another call is suspended in its gateway call
C35_Witness ==
    \E t, u \in Tasks :
        /\ t # u
        /\ calls[t].stage = "snapshot"
        /\ lock = t
        /\ calls[u].stage = "syncing"

\* ---------------------------------------------------------------- C36
\* a call of the store made by the lock block of call t is in progress
StoreCallInProgress(t) == calls[t].stage = "in_block" /\ calls[t].store

\* C36 as stated: no store operation is in progress while the registry lock
\* is held.
C36_NoStoreCallUnderLock ==
    \A t \in Tasks : ~(lock = t /\ StoreCallInProgress(t))

\* C36: every store operation of the registry is made inside the lock block
\* of the calling operation: while it is in progress the caller holds the
\* registry lock, and the strategies table changes only in the step in which
\* the holder of the lock ends its block.
C36_StoreCallsInsideLock ==
    /\ [](\A t \in Tasks : StoreCallInProgress(t) => lock = t)
    /\ [][(db_strategies' # db_strategies \/ db_strategy_seq' # db_strategy_seq) =>
            /\ lock \in Tasks
            /\ StoreCallInProgress(lock)
            /\ lock' = 0]_vars

\* delete_strategy of a cached strategy is inside its lock block, where it
\* calls the store, while another call is suspended in its gateway call
C36_Witness ==
    \E t, u \in Tasks :
        /\ t # u
        /\ lock = t
        /\ StoreCallInProgress(t)
        /\ calls[t].op = "delete"
        /\ calls[t].id \in CacheIds(strategies)
        /\ calls[u].stage = "syncing"

\* ---------------------------------------------------------------- C37
\* the ids the index holds under a channel
IndexIds(index, c) ==
    IF c \in DOMAIN index THEN {index[c][k] : k \in 1..Len(index[c])} ELSE {}

\* the ids of the strategies of the map linked to a channel
MapIds(cache, c) == {cache[i].id : i \in {k \in 1..Len(cache) : cache[k].channel_id = c}}

\* a step in which the lock block of the named operation ran to its end
BlockDone(name) ==
    /\ UNCHANGED <<gateway_up, lastDispatch, poolVars>>
    /\ lastOp'.name = name
    /\ lastOp'.synced

\* C37: whenever the registry lock is free, the index holds under every
\* channel exactly the ids of the strategies of the map linked to it, each
\* once; after a delete the deleted id is under no channel, and after an
\* assign_channel the strategy is under its new channel and no other.
C37_IndexMatchesMap ==
    /\ [](lock = 0 =>
            \A c \in DispatchChannels \cup DOMAIN channel_index :
                /\ IndexIds(channel_index, c) = MapIds(strategies, c)
                /\ c \in DOMAIN channel_index =>
                      /\ channel_index[c] # <<>>
                      /\ Cardinality(IndexIds(channel_index, c)) = Len(channel_index[c]))
    /\ [][BlockDone("delete") =>
            \A c \in DOMAIN channel_index' : lastOp'.id \notin IndexIds(channel_index', c)]_vars
    /\ [][BlockDone("assign") =>
            \A c \in DispatchChannels \cup DOMAIN channel_index' :
                lastOp'.id \in IndexIds(channel_index', c)
                    <=> c = db_strategies'[lastOp'.id].channel_id]_vars

\* assign_channel has moved strategy 1 to channel 200 while strategy 2 is
\* still linked to channel 100, and the index has one id under each
C37_Witness ==
    /\ lock = 0
    /\ lastOp.name = "assign"
    /\ lastOp.synced
    /\ lastOp.id = 1
    /\ DOMAIN channel_index = {"100", "200"}
    /\ channel_index["200"] = <<1>>
    /\ channel_index["100"] = <<2>>

\* ---------------------------------------------------------------- C38
\* the map holds the strategies of the store and no other, each with the
\* flags, the channel and the link time the store has for it
MapMirrorsStore ==
    /\ CacheIds(strategies) = DOMAIN db_strategies
    /\ Len(strategies) = Cardinality(DOMAIN db_strategies)
    /\ \A i \in 1..Len(strategies) :
          LET s == strategies[i]
              row == db_strategies[s.id]
          IN /\ s.is_active = row.is_active
             /\ s.is_paused = row.is_paused
             /\ s.channel_id = row.channel_id
             /\ s.channel_linked_at = row_to_strategy(s.id, row).channel_linked_at

\* C38: when initialize() has run its lock block the map mirrors the store,
\* and from then on every step of the registry keeps it so, whenever the
\* lock is free, until the process starts again with an empty map.
C38_MapMirrorsStoreOnceInitialized ==
    /\ [][BlockDone("initialize") => MapMirrorsStore']_vars
    /\ [][(lock = 0 /\ MapMirrorsStore /\ lastOp'.name # "restart" /\ lock' = 0)
            => MapMirrorsStore']_vars

\* initialize() has loaded a store of two strategies, one of them paused
\* and one inactive, and the map has both as the store has them
C38_Witness ==
    /\ lock = 0
    /\ lastOp.name = "initialize"
    /\ Cardinality(DOMAIN db_strategies) = 2
    /\ \E id \in DOMAIN db_strategies : db_strategies[id].is_paused
    /\ \E id \in DOMAIN db_strategies : ~db_strategies[id].is_active
    /\ MapMirrorsStore

\* ---------------------------------------------------------------- C39
\* the workers that hold a job: in the parser call, or between the upsert
\* and the end of _process_job
Processing == {w \in Workers : wstate[w] \in {"parsing", "recorded", "notifying"}}

\* C39: the workers processing a job are workers of the pool, so at most
\* pool-size jobs are in process whatever the queue holds; a job is handed
\* to one worker in a step that removes it from the queue and touches no
\* other worker; and every job handed out is either in its parser call or
\* has been upserted once, so none is processed twice.
C39_AtMostPoolSizeEachJobOnce ==
    /\ [](Processing \subseteq workers /\ Cardinality(Processing) <= max_workers)
    /\ [](\A w \in Workers : w \in Processing <=> wjob[w] # NoJob)
    /\ [](Dequeued = upserts + Cardinality({w \in Workers : wstate[w] = "parsing"}))
    /\ [][\A w \in Workers :
            (wstate'[w] = "parsing" /\ wstate[w] # "parsing") =>
                /\ queue # <<>>
                /\ wjob'[w] = Head(queue)
                /\ queue' = Tail(queue)
                /\ \A v \in Workers \ {w} :
                      wjob'[v] = wjob[v] /\ wstate'[v] = wstate[v]]_vars

\* a pool of one worker is in the parser call of one job while another job
\* waits in the queue
C39_Witness ==
    /\ workers = {1}
    /\ Processing = {1}
    /\ wstate[1] = "parsing"
    /\ Len(QueuedJobs) = 1
    /\ upserts = 0

====
